---- MODULE Spec2Model ----
(***************************************************************************)
(* State-machine model of the embedded task scheduler                      *)
(* (src-tauri/src/scheduler.rs): the SQLite task store, the trigger        *)
(* evaluator, the task executor, the polling loop and the Tauri command    *)
(* surface.                                                                *)
(*                                                                         *)
(* Two threads touch the store.  The loop worker (spawn_blocking) runs     *)
(* tick after tick; the command thread runs the synchronous Tauri          *)
(* commands one at a time.  Each thread opens its own connection, so the   *)
(* unit of atomicity is one SQL statement.  A clock read (now_ms) is taken *)
(* together with the statement that follows it.                            *)
(*                                                                         *)
(* Option<T> is modelled as a sequence: None is <<>>, Some(x) is <<x>>.    *)
(* A JSON config text is modelled by the object it parses to: a record of  *)
(* the keys the decoders look at, each present (Some) or absent (None).    *)
(***************************************************************************)
EXTENDS Integers, Sequences, FiniteSets, TLC

VARIABLES
    now,        \* the wall clock read by now_ms(), in milliseconds
    fk,         \* whether this SQLite build enforces FOREIGN KEY clauses
    tasks,      \* table tasks: task id -> row
    execs,      \* table task_executions: execution id -> row
    taskSeq,    \* number of task ids generated so far (Uuid::new_v4)
    execSeq,    \* number of execution ids generated so far (Uuid::new_v4)
    events,     \* events emitted to the host through app.emit, in order
    th,         \* per thread: program position and locals
    cmdRet,     \* what the last finished command returned to the host
    runner      \* the SchedulerRunner: its atomics, its join slot, its callers

vars == <<now, fk, tasks, execs, taskSeq, execSeq, events, th, cmdRet, runner>>

---------------------------------------------------------------------------
(* Bounds of the model *)

\* task rows ever created
MaxTasks == 1
\* execution rows ever inserted
MaxExecs == 2
\* width of the model's i64, in bits: every i64 of the program is scaled to it
I64Bits == 17
\* calls of start and stop ever made on the runner
MaxRunnerCalls == 3
\* how many times the clock advances
MaxClockSteps == 3
\* milliseconds per clock advance
ClockStep == 500

(* Program constants *)

SCHEDULER_TICK_MS == 1000
\* limit.unwrap_or(50).clamp(1, 200) of scheduler_get_executions
DEFAULT_EXECUTIONS_LIMIT == 50
MIN_EXECUTIONS_LIMIT == 1
MAX_EXECUTIONS_LIMIT == 200
\* LIMIT 20 of the due-task query
DUE_LIMIT == 20
\* seconds * 1000 in compute_next_run
MS_PER_SECOND == 1000
\* the minute, in milliseconds, of the cron schedule "0 * * * * *"
CRON_MINUTE_MS == 60000

---------------------------------------------------------------------------
(* Option<T> *)

None == <<>>
Some(x) == <<x>>
IsSome(o) == o # <<>>
Unwrap(o) == o[1]

\* SQL COALESCE(?, column)
Coalesce(param, column) == IF IsSome(param) THEN Unwrap(param) ELSE column

\* SQL COALESCE(?, column) on a nullable column
CoalesceOpt(param, column) == IF IsSome(param) THEN param ELSE column

---------------------------------------------------------------------------
(* Trigger and action configs, as the JSON objects their texts parse to *)

TriggerCfg(type, seconds, expression) ==
    [type |-> type, seconds |-> seconds, expression |-> expression]

IntervalCfg(s) == TriggerCfg(Some("interval"), Some(s), None)
CronCfg(e) == TriggerCfg(Some("cron"), None, Some(e))
ManualCfg == TriggerCfg(Some("manual"), None, None)
\* a text that is "{}" (or one that lacks the keys every decoder requires)
EmptyTriggerCfg == TriggerCfg(None, None, None)

\* serde_json::from_str::<IntervalTriggerConfig>: type and seconds required
DecodeIntervalTrigger(cfg) ==
    IF IsSome(cfg.type) /\ IsSome(cfg.seconds)
    THEN Some([seconds |-> Unwrap(cfg.seconds)])
    ELSE None

\* serde_json::from_str::<CronTriggerConfig>: type and expression required
DecodeCronTrigger(cfg) ==
    IF IsSome(cfg.type) /\ IsSome(cfg.expression)
    THEN Some([expression |-> Unwrap(cfg.expression)])
    ELSE None

ActionCfg(type, title, body, prompt, workflowId) ==
    [type |-> type, title |-> title, body |-> body,
     actionButton |-> None, actionCallback |-> None,
     prompt |-> prompt, toolsAllowed |-> None, maxSteps |-> None,
     workflowId |-> workflowId, input |-> None]

NotificationCfg == ActionCfg(Some("notification"), Some("hello"), Some("world"), None, None)
NotificationButtonCfg ==
    [NotificationCfg EXCEPT !.actionButton = Some("open"), !.actionCallback = Some("cb")]
AgentTaskCfg == ActionCfg(Some("agent_task"), None, None, Some("do it"), None)
WorkflowCfg == ActionCfg(Some("workflow"), None, None, None, Some("wf1"))
ScriptCfg == ActionCfg(Some("script"), None, None, None, None)
\* a notification object without its body
NoBodyCfg == ActionCfg(Some("notification"), Some("hello"), None, None, None)
EmptyActionCfg == ActionCfg(None, None, None, None, None)

\* serde_json::from_str::<NotificationActionConfig>: type, title, body required
DecodeNotification(cfg) ==
    IF IsSome(cfg.type) /\ IsSome(cfg.title) /\ IsSome(cfg.body)
    THEN Some([title |-> Unwrap(cfg.title), body |-> Unwrap(cfg.body),
               action_button |-> cfg.actionButton,
               action_callback |-> cfg.actionCallback])
    ELSE None

\* serde_json::from_str::<AgentTaskActionConfig>: type and prompt required
DecodeAgentTask(cfg) ==
    IF IsSome(cfg.type) /\ IsSome(cfg.prompt)
    THEN Some([prompt |-> Unwrap(cfg.prompt),
               tools_allowed |-> cfg.toolsAllowed, max_steps |-> cfg.maxSteps])
    ELSE None

\* serde_json::from_str::<WorkflowActionConfig>: type and workflowId required
DecodeWorkflow(cfg) ==
    IF IsSome(cfg.type) /\ IsSome(cfg.workflowId)
    THEN Some([workflow_id |-> Unwrap(cfg.workflowId), input |-> cfg.input])
    ELSE None

---------------------------------------------------------------------------
(* Trigger evaluator *)

\* Schedule::from_str on the 6-field expression: the period of the schedules
\* the model knows, None for a text the cron crate rejects
CronParse(expr_6) ==
    IF expr_6 = "0 * * * * *" THEN Some(CRON_MINUTE_MS) ELSE None

\* schedule.after(from).next(): the first occurrence strictly after from_ms
cron_next_ms(expr_5, from_ms) ==
    LET schedule == CronParse("0 " \o expr_5)
    IN  IF schedule = None THEN None
        ELSE Some(((from_ms \div Unwrap(schedule)) + 1) * Unwrap(schedule))

MinI64 == -(2 ^ (I64Bits - 1))
MaxI64 == 2 ^ (I64Bits - 1) - 1
FitsI64(x) == MinI64 <= x /\ x <= MaxI64
\* two's-complement wrap-around of i64 arithmetic without overflow checks
WrapI64(x) == ((x - MinI64) % (MaxI64 - MinI64 + 1)) + MinI64

\* whether from_ms + seconds * 1000 overflows on the interval arm
IntervalOverflows(trigger_type, trigger_config, from_ms) ==
    /\ trigger_type = "interval"
    /\ DecodeIntervalTrigger(trigger_config) # None
    /\ LET seconds == Unwrap(DecodeIntervalTrigger(trigger_config)).seconds
       IN  /\ seconds > 0
           /\ \/ ~FitsI64(seconds * MS_PER_SECOND)
              \/ ~FitsI64(from_ms + seconds * MS_PER_SECOND)

\* what an overflowing + or * does depends on the build: with overflow
\* checks (debug profile) it panics, without them (release profile) it
\* wraps.  TRUE stands for the panic.
PanicChoices(trigger_type, trigger_config, from_ms) ==
    IF IntervalOverflows(trigger_type, trigger_config, from_ms) THEN BOOLEAN ELSE {FALSE}

\* the value compute_next_run returns when it returns: i64 arithmetic wraps
compute_next_run(trigger_type, trigger_config, from_ms) ==
    CASE trigger_type = "interval" ->
            LET cfg == DecodeIntervalTrigger(trigger_config)
            IN  IF cfg = None THEN None
                ELSE IF Unwrap(cfg).seconds <= 0 THEN None
                ELSE Some(WrapI64(from_ms + WrapI64(Unwrap(cfg).seconds * MS_PER_SECOND)))
      [] trigger_type = "cron" ->
            LET cfg == DecodeCronTrigger(trigger_config)
            IN  IF cfg = None THEN None
                ELSE cron_next_ms(Unwrap(cfg).expression, from_ms)
      [] trigger_type \in {"manual", "event"} -> None
      [] OTHER -> None

---------------------------------------------------------------------------
(* Rows *)

\* DbTaskRow as written by the INSERT of scheduler_create_task
TaskRow(id, name, description, trigger_type, trigger_config, action_type, action_config, enabled, next_run, metadata, created_at) ==
    [id |-> id, name |-> name, description |-> description,
     trigger_type |-> trigger_type, trigger_config |-> trigger_config,
     action_type |-> action_type, action_config |-> action_config,
     enabled |-> enabled, last_run |-> None, next_run |-> next_run,
     metadata |-> metadata, created_at |-> created_at, updated_at |-> None]

\* the row written by INSERT INTO task_executions ... VALUES (?, ?, 'running', ?)
RunningRow(exec_id, task_id, start_ms) ==
    [id |-> exec_id, task_id |-> task_id, status |-> "running",
     started_at |-> start_ms, completed_at |-> None,
     result |-> None, error |-> None, duration |-> None]

\* serde_json::from_str(&m).ok() on the metadata text
ParseMetadata(m) == IF m = "not json" THEN None ELSE Some(m)

row_to_api_task(row) ==
    [id |-> row.id, name |-> row.name, description |-> row.description,
     trigger |-> [type |-> row.trigger_type, config |-> row.trigger_config],
     action |-> [type |-> row.action_type, config |-> row.action_config],
     enabled |-> row.enabled, last_run |-> row.last_run, next_run |-> row.next_run,
     metadata |-> IF row.metadata = None THEN None
                  ELSE ParseMetadata(Unwrap(row.metadata)),
     created_at |-> row.created_at, updated_at |-> row.updated_at]

\* SELECT ... FROM tasks WHERE id = ?  (.optional())
get_db_task(store, id) == IF id \in DOMAIN store THEN Some(store[id]) ELSE None

---------------------------------------------------------------------------
(* The due-task query *)

MinOf(S) == CHOOSE x \in S : \A y \in S : x <= y
MaxOf(S) == CHOOSE x \in S : \A y \in S : x >= y

\* a WHERE clause that forgets the enabled flag
DueFilterIgnoringEnabled(row, now_ms) ==
    IsSome(row.next_run) /\ Unwrap(row.next_run) <= now_ms

\* WHERE enabled = 1 AND next_run IS NOT NULL AND next_run <= ?
DueFilter(row, now_ms) ==
    row.enabled /\ IsSome(row.next_run) /\ Unwrap(row.next_run) <= now_ms

\* ORDER BY next_run ASC.  SQL leaves the order of rows with equal next_run
\* open: desc_ties picks between the two orders a scan of the rowids gives.
RECURSIVE OrderByNextRun(_, _, _)
OrderByNextRun(store, ids, desc_ties) ==
    IF ids = {} THEN <<>>
    ELSE LET least == MinOf({Unwrap(store[i].next_run) : i \in ids})
             ties == {i \in ids : Unwrap(store[i].next_run) = least}
             pick == IF desc_ties THEN MaxOf(ties) ELSE MinOf(ties)
         IN  <<store[pick]>> \o OrderByNextRun(store, ids \ {pick}, desc_ties)

\* a LIMIT that lets one row too many through
LimitOffByOne(rows, n) == SubSeq(rows, 1, IF Len(rows) < n + 1 THEN Len(rows) ELSE n + 1)

\* LIMIT n
Limit(rows, n) == SubSeq(rows, 1, IF Len(rows) < n THEN Len(rows) ELSE n)

list_due_tasks(store, now_ms, desc_ties) ==
    Limit(OrderByNextRun(store,
                         {i \in DOMAIN store : DueFilter(store[i], now_ms)},
                         desc_ties),
          DUE_LIMIT)

---------------------------------------------------------------------------
(* Action dispatch of execute_task: the outcome and the event it emits *)

Outcome(status, result, error, emits) ==
    [status |-> status, result |-> result, error |-> error, emits |-> emits]

\* a payload that forgets the button
NotificationPayloadWithoutButton(cfg) ==
    [title |-> cfg.title, body |-> cfg.body,
     actionButton |-> None, actionCallback |-> cfg.action_callback]

NotificationPayload(cfg) ==
    [title |-> cfg.title, body |-> cfg.body,
     actionButton |-> cfg.action_button, actionCallback |-> cfg.action_callback]

AgentTaskPayload(cfg) ==
    [prompt |-> cfg.prompt, toolsAllowed |-> cfg.tools_allowed,
     maxSteps |-> cfg.max_steps]

WorkflowPayload(cfg) == [workflowId |-> cfg.workflow_id, input |-> cfg.input]

Event(name, payload) == [name |-> name, payload |-> payload]

\* a script arm that leaves status at its initial "success"
ScriptOutcomeLeftSuccess ==
    Outcome("success", None, Some("script action is not supported yet"), <<>>)

\* the "script" arm
ScriptOutcome ==
    Outcome("failed", None, Some("script action is not supported yet"), <<>>)

\* the `other` arm
UnknownActionOutcome(action_type) ==
    Outcome("failed", None, Some("unknown action type: " \o action_type), <<>>)

DispatchAction(action_type, action_config) ==
    CASE action_type = "notification" ->
            LET cfg == DecodeNotification(action_config)
            IN  IF IsSome(cfg)
                THEN Outcome("success", Some(NotificationPayload(Unwrap(cfg))), None,
                             <<Event("task_notification",
                                     NotificationPayload(Unwrap(cfg)))>>)
                ELSE Outcome("failed", None,
                             Some("invalid notification action config: decode error"),
                             <<>>)
      [] action_type = "agent_task" ->
            LET cfg == DecodeAgentTask(action_config)
            IN  IF IsSome(cfg)
                THEN Outcome("success", Some(AgentTaskPayload(Unwrap(cfg))), None,
                             <<Event("task_agent_execute",
                                     AgentTaskPayload(Unwrap(cfg)))>>)
                ELSE Outcome("failed", None,
                             Some("invalid agent_task action config: decode error"),
                             <<>>)
      [] action_type = "workflow" ->
            LET cfg == DecodeWorkflow(action_config)
            IN  IF IsSome(cfg)
                THEN Outcome("success", Some(WorkflowPayload(Unwrap(cfg))), None,
                             <<Event("task_workflow_execute",
                                     WorkflowPayload(Unwrap(cfg)))>>)
                ELSE Outcome("failed", None,
                             Some("invalid workflow action config: decode error"),
                             <<>>)
      [] action_type = "script" -> ScriptOutcome
      [] OTHER -> UnknownActionOutcome(action_type)

---------------------------------------------------------------------------
(* Threads *)

Threads == {"loop", "cmd"}

\* The locals of a thread.  pc is the statement it is about to run:
\*   loop: "top" (loop head), "sleep" (thread::sleep)      cmd: "idle"
\*   both, inside execute_task: "insert", "finalize", "run_info"
Locals(pc, wake, due) ==
    [pc |-> pc, wake |-> wake, due |-> due,
     task |-> None, exec_id |-> None, start_ms |-> None, end_ms |-> None,
     outcome |-> None, ret |-> None]

\* the locals on entry to execute_task(app, conn, task)
EnterExecute(l, task) ==
    [l EXCEPT !.pc = "insert", !.task = Some(task), !.exec_id = None,
              !.start_ms = None, !.end_ms = None, !.outcome = None, !.ret = None]

NoReturn == [op |-> "none", id |-> 0, res |-> "none", task |-> None]
Return(op, id, res, task) == [op |-> op, id |-> id, res |-> res, task |-> task]

\* a tick that gives up on the first execute_task that returns an error
AfterExecuteAbortingOnError(self, l, ret) ==
    IF self = "loop"
    THEN IF l.due # <<>> /\ ret = "Ok"
         THEN [EnterExecute(l, Head(l.due)) EXCEPT !.due = Tail(l.due), !.ret = Some(ret)]
         ELSE [Locals("sleep", now + SCHEDULER_TICK_MS, <<>>) EXCEPT !.ret = Some(ret)]
    ELSE [Locals("idle", 0, <<>>) EXCEPT !.ret = Some(ret)]

\* execute_task returned ret to its caller: tick goes on with the next due
\* task or ends (the loop then sleeps), scheduler_execute_now returns
AfterExecute(self, l, ret) ==
    IF self = "loop"
    THEN IF l.due # <<>>
         THEN [EnterExecute(l, Head(l.due)) EXCEPT !.due = Tail(l.due), !.ret = Some(ret)]
         ELSE [Locals("sleep", now + SCHEDULER_TICK_MS, <<>>) EXCEPT !.ret = Some(ret)]
    ELSE [Locals("idle", 0, <<>>) EXCEPT !.ret = Some(ret)]

ReturnOfExecuteNow(self, l, ret) ==
    IF self = "cmd" THEN Return("execute_now", Unwrap(l.task).id, ret, None)
    ELSE cmdRet

---------------------------------------------------------------------------
(* execute_task, statement by statement *)

\* whether INSERT INTO task_executions is accepted: the FOREIGN KEY clause
\* rejects a task_id that is not in tasks when the build enforces it
InsertAccepted(task_id) == ~fk \/ task_id \in DOMAIN tasks

\* start_ms, exec_id, INSERT ... 'running', emit task_started, dispatch;
\* cap is the number of execution rows the model lets the table grow to
ExecInsertWithin(self, cap) ==
    LET l == th[self]
        task == Unwrap(l.task)
        exec_id == execSeq + 1
        outcome == DispatchAction(task.action_type, task.action_config)
    IN  /\ l.pc = "insert"
        /\ execSeq < cap
        /\ execSeq' = exec_id
        /\ IF InsertAccepted(task.id)
           THEN /\ execs' = [i \in DOMAIN execs \cup {exec_id} |->
                               IF i = exec_id THEN RunningRow(exec_id, task.id, now)
                               ELSE execs[i]]
                /\ events' = events \o <<Event("task_started", task.id)>>
                                    \o outcome.emits
                /\ th' = [th EXCEPT ![self] =
                            [l EXCEPT !.pc = "finalize", !.exec_id = Some(exec_id),
                                      !.start_ms = Some(now),
                                      !.outcome = Some(outcome)]]
                /\ UNCHANGED cmdRet
           ELSE /\ th' = [th EXCEPT ![self] =
                            AfterExecute(self, l, "failed to insert execution")]
                /\ cmdRet' = ReturnOfExecuteNow(self, l, "failed to insert execution")
                /\ UNCHANGED <<execs, events>>
        /\ UNCHANGED <<now, fk, runner, tasks, taskSeq>>

ExecInsert(self) == ExecInsertWithin(self, MaxExecs)

\* an UPDATE that records the outcome but leaves status as it was
FinalizedRowKeepingStatus(row, outcome, end_ms, duration) ==
    [row EXCEPT !.completed_at = Some(end_ms), !.result = outcome.result,
                !.error = outcome.error, !.duration = Some(duration)]

\* the row after UPDATE task_executions SET status, completed_at, result, error, duration
FinalizedRow(row, outcome, end_ms, duration) ==
    [row EXCEPT !.status = outcome.status, !.completed_at = Some(end_ms),
                !.result = outcome.result, !.error = outcome.error,
                !.duration = Some(duration)]

\* end_ms, duration, UPDATE task_executions ... WHERE id = exec_id
ExecFinalize(self) ==
    LET l == th[self]
        exec_id == Unwrap(l.exec_id)
        duration == now - Unwrap(l.start_ms)
    IN  /\ l.pc = "finalize"
        /\ execs' = [i \in DOMAIN execs |->
                        IF i = exec_id
                        THEN FinalizedRow(execs[i], Unwrap(l.outcome), now, duration)
                        ELSE execs[i]]
        /\ th' = [th EXCEPT ![self] = [l EXCEPT !.pc = "run_info", !.end_ms = Some(now)]]
        /\ UNCHANGED <<now, fk, runner, tasks, taskSeq, execSeq, events, cmdRet>>

\* an UPDATE that also stamps created_at
RunInfoRowStampingCreatedAt(row, task, end_ms) ==
    [row EXCEPT !.last_run = Some(end_ms),
                !.next_run = compute_next_run(task.trigger_type, task.trigger_config, end_ms),
                !.updated_at = Some(end_ms), !.created_at = end_ms]

\* the row after UPDATE tasks SET last_run = ?, next_run = ?, updated_at = ?
RunInfoRow(row, task, end_ms) ==
    [row EXCEPT !.last_run = Some(end_ms),
                !.next_run = compute_next_run(task.trigger_type, task.trigger_config, end_ms),
                !.updated_at = Some(end_ms)]

\* a panic unwinds out of execute_task and out of its caller: out of tick and
\* the loop closure on the worker, out of scheduler_execute_now on the
\* command thread; the thread runs no further statement
ExecutePanics(l) == [l EXCEPT !.pc = "panicked", !.ret = Some("panicked")]

\* the terminal event of execute_task
TerminalEvent(task, outcome) ==
    IF outcome.status = "success"
    THEN Event("task_completed", task.id)
    ELSE Event("task_failed",
               [id |-> task.id,
                error |-> IF IsSome(outcome.error) THEN Unwrap(outcome.error)
                          ELSE "unknown error"])

\* compute_next_run from the task row the caller passed in, UPDATE tasks ...
\* WHERE id = task.id, emit the terminal event, return Ok
ExecRunInfo(self) ==
    LET l == th[self]
        task == Unwrap(l.task)
    IN  /\ l.pc = "run_info"
        /\ \E panics \in PanicChoices(task.trigger_type, task.trigger_config,
                                       Unwrap(l.end_ms)) :
              IF panics
              THEN /\ th' = [th EXCEPT ![self] = ExecutePanics(l)]
                   /\ cmdRet' = ReturnOfExecuteNow(self, l, "panicked")
                   /\ UNCHANGED <<tasks, events>>
              ELSE /\ tasks' = [i \in DOMAIN tasks |->
                                  IF i = task.id
                                  THEN RunInfoRow(tasks[i], task, Unwrap(l.end_ms))
                                  ELSE tasks[i]]
                   /\ events' = Append(events, TerminalEvent(task, Unwrap(l.outcome)))
                   /\ th' = [th EXCEPT ![self] = AfterExecute(self, l, "Ok")]
                   /\ cmdRet' = ReturnOfExecuteNow(self, l, "Ok")
        /\ UNCHANGED <<now, fk, runner, execs, taskSeq, execSeq>>

\* execute_task returns Err(err) at the `?` of one of its three statements:
\* nothing is written by that statement and none of the later ones runs
ExecuteFails(self, err) ==
    /\ th' = [th EXCEPT ![self] = AfterExecute(self, th[self], err)]
    /\ cmdRet' = ReturnOfExecuteNow(self, th[self], err)
    /\ UNCHANGED <<now, fk, runner, tasks, execs, taskSeq, events>>

\* the INSERT into task_executions fails in the store
ExecInsertFails(self) ==
    /\ th[self].pc = "insert"
    /\ execSeq < MaxExecs
    /\ execSeq' = execSeq + 1
    /\ ExecuteFails(self, "failed to insert execution")

\* a failed UPDATE of the execution row that execute_task does not return on
ExecFinalizeIgnoringError(self) ==
    /\ th[self].pc = "finalize"
    /\ th' = [th EXCEPT ![self] = [th[self] EXCEPT !.pc = "run_info", !.end_ms = Some(now)]]
    /\ UNCHANGED <<now, fk, runner, tasks, execs, taskSeq, execSeq, events, cmdRet>>

\* the UPDATE of the execution row fails in the store
ExecFinalizeFails(self) ==
    /\ th[self].pc = "finalize"
    /\ UNCHANGED execSeq
    /\ ExecuteFails(self, "failed to update execution")

\* the UPDATE of the task row fails in the store
ExecRunInfoFails(self) ==
    /\ th[self].pc = "run_info"
    /\ UNCHANGED execSeq
    /\ ExecuteFails(self, "failed to update task run info")

ExecutorFails ==
    \E self \in Threads :
        ExecInsertFails(self) \/ ExecFinalizeFails(self) \/ ExecRunInfoFails(self)

---------------------------------------------------------------------------
(* The scheduler loop *)

\* the errors tick returns before it has a due list: open_db, ensure_tables,
\* list_due_tasks
TickErrors ==
    {"failed to open sqlite db", "failed to ensure tables", "failed to query due tasks"}

\* a tick that takes a store error for the end of the loop
LoopTickFailsFatally(err) ==
    /\ th["loop"].pc = "top"
    /\ ~runner.stop
    /\ th' = [th EXCEPT !["loop"] = [Locals("stopped", 0, <<>>) EXCEPT !.ret = Some(err)]]
    /\ UNCHANGED <<now, fk, runner, tasks, execs, taskSeq, execSeq, events, cmdRet>>

\* tick returns Err(err) before executing anything; the loop logs it and sleeps
LoopTickFails(err) ==
    /\ th["loop"].pc = "top"
    /\ ~runner.stop
    /\ th' = [th EXCEPT !["loop"] =
                [Locals("sleep", now + SCHEDULER_TICK_MS, <<>>) EXCEPT !.ret = Some(err)]]
    /\ UNCHANGED <<now, fk, runner, tasks, execs, taskSeq, execSeq, events, cmdRet>>

\* thread::sleep(SCHEDULER_TICK_MS) is over: back to the head of the loop
LoopWake ==
    /\ th["loop"].pc = "sleep"
    /\ now >= th["loop"].wake
    /\ th' = [th EXCEPT !["loop"].pc = "top"]
    /\ UNCHANGED <<now, fk, runner, tasks, execs, taskSeq, execSeq, events, cmdRet>>

\* the clock of the model stops at its last reading; a sleep that would end
\* after it ends there, at an instant the clock no longer tells apart
LoopWakeLate ==
    /\ th["loop"].pc = "sleep"
    /\ now < th["loop"].wake
    /\ now = MaxClockSteps * ClockStep
    /\ th' = [th EXCEPT !["loop"].pc = "top"]
    /\ UNCHANGED <<now, fk, runner, tasks, execs, taskSeq, execSeq, events, cmdRet>>

\* tick: now_ms, list_due_tasks, then execute_task on each row in turn
LoopTick(desc_ties) ==
    LET l == th["loop"]
        due_tasks == list_due_tasks(tasks, now, desc_ties)
    IN  /\ l.pc = "top"
        /\ ~runner.stop
        /\ th' = [th EXCEPT !["loop"] =
                    IF due_tasks = <<>>
                    THEN Locals("sleep", now + SCHEDULER_TICK_MS, <<>>)
                    ELSE [EnterExecute(l, Head(due_tasks)) EXCEPT !.due = Tail(due_tasks)]]
        /\ UNCHANGED <<now, fk, runner, tasks, execs, taskSeq, execSeq, events, cmdRet>>

---------------------------------------------------------------------------
(* SchedulerRunner.  start and stop can be called from any thread holding  *)
(* the runner (it is Clone, and Drop calls stop); each caller runs them    *)
(* statement by statement.                                                 *)

\* the threads that call start and stop
Callers == {"setup", "other"}

\* SchedulerRunner with its callers: pc is "idle" outside any call, "spawn"
\* and "store" inside start, "take" inside stop; spawned counts the worker
\* loops ever handed to spawn_blocking, calls the calls made so far
Runner(is_started, stop, join, spawned, calls) ==
    [is_started |-> is_started, stop |-> stop, join |-> join,
     spawned |-> spawned, calls |-> calls, pc |-> [c \in Callers |-> "idle"]]

\* SchedulerRunner::new
NewRunner == Runner(FALSE, FALSE, None, 0, 0)

\* the runner after the application's setup has started it
StartedRunner == Runner(TRUE, FALSE, Some("handle"), 1, 1)

\* a start that spawns without looking at is_started
StartSwapUnchecked(c) ==
    /\ runner.pc[c] = "idle"
    /\ runner.calls < MaxRunnerCalls
    /\ runner.spawned < MaxRunnerCalls
    /\ runner' = [runner EXCEPT !.is_started = TRUE, !.calls = @ + 1, !.pc[c] = "spawn"]
    /\ UNCHANGED <<now, fk, tasks, execs, taskSeq, execSeq, events, th, cmdRet>>

\* start: is_started.swap(true); return if it was set
StartSwap(c) ==
    /\ runner.pc[c] = "idle"
    /\ runner.calls < MaxRunnerCalls
    /\ runner' = IF runner.is_started
                 THEN [runner EXCEPT !.calls = @ + 1]
                 ELSE [runner EXCEPT !.is_started = TRUE, !.calls = @ + 1,
                                     !.pc[c] = "spawn"]
    /\ UNCHANGED <<now, fk, tasks, execs, taskSeq, execSeq, events, th, cmdRet>>

\* start: spawn_blocking(loop closure); the closure is queued for a worker
StartSpawn(c) ==
    /\ runner.pc[c] = "spawn"
    /\ runner' = [runner EXCEPT !.spawned = @ + 1, !.pc[c] = "store"]
    /\ th' = [th EXCEPT !["loop"] = Locals("queued", 0, <<>>)]
    /\ UNCHANGED <<now, fk, tasks, execs, taskSeq, execSeq, events, cmdRet>>

\* start: *join.lock() = Some(handle)
StartStore(c) ==
    /\ runner.pc[c] = "store"
    /\ runner' = [runner EXCEPT !.join = Some("handle"), !.pc[c] = "idle"]
    /\ UNCHANGED <<now, fk, tasks, execs, taskSeq, execSeq, events, th, cmdRet>>

\* stop: stop.store(true)
StopSignal(c) ==
    /\ runner.pc[c] = "idle"
    /\ runner.calls < MaxRunnerCalls
    /\ runner' = [runner EXCEPT !.stop = TRUE, !.calls = @ + 1, !.pc[c] = "take"]
    /\ UNCHANGED <<now, fk, tasks, execs, taskSeq, execSeq, events, th, cmdRet>>

\* a stop whose abort ends the worker wherever it is
StopTakeKillingWorker(c, cancelled) ==
    /\ runner.pc[c] = "take"
    /\ runner' = [runner EXCEPT !.join = None, !.pc[c] = "idle"]
    /\ th' = IF IsSome(runner.join) /\ th["loop"].pc \notin {"none", "stopped"}
             THEN [th EXCEPT !["loop"].pc = "cancelled"]
             ELSE th
    /\ UNCHANGED <<now, fk, tasks, execs, taskSeq, execSeq, events, cmdRet>>

\* stop: join.lock().take(), and handle.abort() on the handle taken.  Abort
\* does nothing to a blocking closure that is running; one that is still
\* queued it may keep from ever starting (cancelled).
StopTake(c, cancelled) ==
    /\ runner.pc[c] = "take"
    /\ runner' = [runner EXCEPT !.join = None, !.pc[c] = "idle"]
    /\ th' = IF IsSome(runner.join) /\ th["loop"].pc = "queued" /\ cancelled
             THEN [th EXCEPT !["loop"].pc = "cancelled"]
             ELSE th
    /\ UNCHANGED <<now, fk, tasks, execs, taskSeq, execSeq, events, cmdRet>>

\* a blocking-pool worker picks the closure up: the loop is at its head
LoopBegin ==
    /\ th["loop"].pc = "queued"
    /\ th' = [th EXCEPT !["loop"].pc = "top"]
    /\ UNCHANGED <<now, fk, runner, tasks, execs, taskSeq, execSeq, events, cmdRet>>

\* if stop.load() { break }: the closure returns
LoopExit ==
    /\ th["loop"].pc = "top"
    /\ runner.stop
    /\ th' = [th EXCEPT !["loop"] = Locals("stopped", 0, <<>>)]
    /\ UNCHANGED <<now, fk, runner, tasks, execs, taskSeq, execSeq, events, cmdRet>>

Start == \E c \in Callers : StartSwap(c) \/ StartSpawn(c) \/ StartStore(c)

Stop == \E c \in Callers : StopSignal(c) \/ \E cancelled \in BOOLEAN : StopTake(c, cancelled)

---------------------------------------------------------------------------
(* The command surface.  Commands run on one thread, one at a time.  The   *)
(* loop writes only last_run, next_run, updated_at and execution rows, and *)
(* a command that reads a row before writing it reads none of these, so    *)
(* its read and its write are taken as one step.                           *)

CmdIdle == th["cmd"].pc = "idle"

\* next_run of scheduler_create_task
\* a panic unwinds out of the command: nothing is returned to the host and
\* the command thread is gone
CommandPanics(op, id) ==
    /\ th' = [th EXCEPT !["cmd"].pc = "panicked"]
    /\ cmdRet' = Return(op, id, "panicked", None)

\* compute_next_run is called only when enabled
CreatePanicChoices(trigger_type, trigger_config, enabled, t) ==
    IF enabled THEN PanicChoices(trigger_type, trigger_config, t) ELSE {FALSE}

CreateNextRun(trigger_type, trigger_config, enabled, t) ==
    IF enabled THEN compute_next_run(trigger_type, trigger_config, t) ELSE None

scheduler_create_task(name, description, trigger_type, trigger_config, action_type, action_config, enabled, metadata) ==
    LET id == taskSeq + 1
        next_run == CreateNextRun(trigger_type, trigger_config, enabled, now)
        row == TaskRow(id, name, description, trigger_type, trigger_config,
                       action_type, action_config, enabled, next_run, metadata, now)
    IN  /\ CmdIdle
        /\ taskSeq < MaxTasks
        /\ taskSeq' = id
        /\ \E panics \in CreatePanicChoices(trigger_type, trigger_config, enabled, now) :
              IF panics
              THEN CommandPanics("create_task", id) /\ UNCHANGED tasks
              ELSE /\ tasks' = [i \in DOMAIN tasks \cup {id} |->
                                  IF i = id THEN row ELSE tasks[i]]
                   /\ cmdRet' = Return("create_task", id, "Ok", None)
                   /\ UNCHANGED th
        /\ UNCHANGED <<now, fk, runner, execs, execSeq, events>>

scheduler_get_task(id) ==
    /\ CmdIdle
    /\ cmdRet' = IF id \in DOMAIN tasks
                 THEN Return("get_task", id, "Ok", Some(row_to_api_task(tasks[id])))
                 ELSE Return("get_task", id, "task not found: Query returned no rows", None)
    /\ UNCHANGED <<now, fk, runner, tasks, execs, taskSeq, execSeq, events, th>>

\* ORDER BY started_at ASC: oldest first
RECURSIVE OrderByStartedAtAsc(_, _, _)
OrderByStartedAtAsc(store, ids, desc_ties) ==
    IF ids = {} THEN <<>>
    ELSE LET least == MinOf({store[e].started_at : e \in ids})
             ties == {e \in ids : store[e].started_at = least}
             pick == IF desc_ties THEN MaxOf(ties) ELSE MinOf(ties)
         IN  <<store[pick]>> \o OrderByStartedAtAsc(store, ids \ {pick}, desc_ties)

\* ORDER BY started_at DESC.  SQL leaves the order of rows with equal
\* started_at open: desc_ties picks between two orders.
RECURSIVE OrderByStartedAt(_, _, _)
OrderByStartedAt(store, ids, desc_ties) ==
    IF ids = {} THEN <<>>
    ELSE LET most == MaxOf({store[e].started_at : e \in ids})
             ties == {e \in ids : store[e].started_at = most}
             pick == IF desc_ties THEN MaxOf(ties) ELSE MinOf(ties)
         IN  <<store[pick]>> \o OrderByStartedAt(store, ids \ {pick}, desc_ties)

\* limit.unwrap_or(50).clamp(1, 200)
ClampLimit(limit) ==
    LET n == IF IsSome(limit) THEN Unwrap(limit) ELSE DEFAULT_EXECUTIONS_LIMIT
    IN  IF n < MIN_EXECUTIONS_LIMIT THEN MIN_EXECUTIONS_LIMIT
        ELSE IF n > MAX_EXECUTIONS_LIMIT THEN MAX_EXECUTIONS_LIMIT ELSE n

\* SELECT ... FROM task_executions WHERE task_id = ? ORDER BY started_at DESC LIMIT ?
scheduler_get_executions(task_id, limit, desc_ties) ==
    /\ CmdIdle
    /\ cmdRet' = Return("get_executions", task_id, "Ok",
                        Limit(OrderByStartedAt(execs,
                                               {e \in DOMAIN execs : execs[e].task_id = task_id},
                                               desc_ties),
                              ClampLimit(limit)))
    /\ UNCHANGED <<now, fk, runner, tasks, execs, taskSeq, execSeq, events, th>>

\* the arguments of scheduler_update_task other than id, each an Option
Patch(name, description, trigger_type, trigger_config, action_type, action_config, enabled, metadata) ==
    [name |-> name, description |-> description,
     trigger_type |-> trigger_type, trigger_config |-> trigger_config,
     action_type |-> action_type, action_config |-> action_config,
     enabled |-> enabled, metadata |-> metadata]

NoPatch == Patch(None, None, None, None, None, None, None, None)

\* an update that schedules by the stored enabled flag, not the resulting one
UpdateNextRunFromStoredFlag(existing, patch, t) ==
    LET final_trigger_type == Coalesce(patch.trigger_type, existing.trigger_type)
        final_trigger_config == Coalesce(patch.trigger_config, existing.trigger_config)
    IN  IF existing.enabled
        THEN compute_next_run(final_trigger_type, final_trigger_config, t)
        ELSE None

\* next_run of scheduler_update_task, from the existing row and the arguments
UpdateNextRun(existing, patch, t) ==
    LET final_trigger_type == Coalesce(patch.trigger_type, existing.trigger_type)
        final_trigger_config == Coalesce(patch.trigger_config, existing.trigger_config)
        final_enabled == Coalesce(patch.enabled, existing.enabled)
    IN  IF final_enabled
        THEN compute_next_run(final_trigger_type, final_trigger_config, t)
        ELSE None

UpdatePanicChoices(existing, patch, t) ==
    CreatePanicChoices(Coalesce(patch.trigger_type, existing.trigger_type),
                       Coalesce(patch.trigger_config, existing.trigger_config),
                       Coalesce(patch.enabled, existing.enabled), t)

\* the row after the UPDATE of scheduler_update_task
UpdatedRow(row, patch, next_run, t) ==
    [row EXCEPT !.name = Coalesce(patch.name, row.name),
                !.description = CoalesceOpt(patch.description, row.description),
                !.trigger_type = Coalesce(patch.trigger_type, row.trigger_type),
                !.trigger_config = Coalesce(patch.trigger_config, row.trigger_config),
                !.action_type = Coalesce(patch.action_type, row.action_type),
                !.action_config = Coalesce(patch.action_config, row.action_config),
                !.enabled = Coalesce(patch.enabled, row.enabled),
                !.metadata = CoalesceOpt(patch.metadata, row.metadata),
                !.next_run = next_run,
                !.updated_at = Some(t)]

scheduler_update_task(id, patch) ==
    /\ CmdIdle
    /\ IF id \in DOMAIN tasks
       THEN \E panics \in UpdatePanicChoices(tasks[id], patch, now) :
               IF panics
               THEN CommandPanics("update_task", id) /\ UNCHANGED tasks
               ELSE /\ tasks' = [tasks EXCEPT ![id] =
                                   UpdatedRow(tasks[id], patch,
                                              UpdateNextRun(tasks[id], patch, now), now)]
                    /\ cmdRet' = Return("update_task", id, "Ok", None)
                    /\ UNCHANGED th
       ELSE /\ cmdRet' = Return("update_task", id, "task not found", None)
            /\ UNCHANGED <<tasks, th>>
    /\ UNCHANGED <<now, fk, runner, execs, taskSeq, execSeq, events>>

\* DELETE FROM tasks WHERE id = ?, with ON DELETE CASCADE where enforced
scheduler_delete_task(id) ==
    /\ CmdIdle
    /\ tasks' = [i \in DOMAIN tasks \ {id} |-> tasks[i]]
    /\ execs' = IF fk /\ id \in DOMAIN tasks
                THEN [e \in {x \in DOMAIN execs : execs[x].task_id # id} |-> execs[e]]
                ELSE execs
    /\ cmdRet' = Return("delete_task", id, "Ok", None)
    /\ UNCHANGED <<now, fk, runner, taskSeq, execSeq, events, th>>

\* a setEnabled that reschedules whatever the flag
EnableNextRunIgnoringFlag(existing, enabled, t) ==
    compute_next_run(existing.trigger_type, existing.trigger_config, t)

\* a setEnabled that counts on from the next_run already stored
EnableNextRunCumulative(existing, enabled, t) ==
    IF enabled
    THEN compute_next_run(existing.trigger_type, existing.trigger_config,
                          IF IsSome(existing.next_run) THEN Unwrap(existing.next_run) ELSE t)
    ELSE None

\* next_run of scheduler_enable_task
EnableNextRun(existing, enabled, t) ==
    IF enabled
    THEN compute_next_run(existing.trigger_type, existing.trigger_config, t)
    ELSE None

\* the row after UPDATE tasks SET enabled = ?, next_run = ?, updated_at = ?
EnabledRow(row, enabled, next_run, t) ==
    [row EXCEPT !.enabled = enabled, !.next_run = next_run, !.updated_at = Some(t)]

\* a setEnabled that updates without looking the task up first
scheduler_enable_task_unchecked(id, enabled) ==
    /\ CmdIdle
    /\ tasks' = [i \in DOMAIN tasks |->
                    IF i = id
                    THEN EnabledRow(tasks[i], enabled,
                                    EnableNextRun(tasks[i], enabled, now), now)
                    ELSE tasks[i]]
    /\ cmdRet' = Return("enable_task", id, "Ok", None)
    /\ UNCHANGED <<now, fk, runner, execs, taskSeq, execSeq, events, th>>

scheduler_enable_task(id, enabled) ==
    /\ CmdIdle
    /\ IF id \in DOMAIN tasks
       THEN \E panics \in CreatePanicChoices(tasks[id].trigger_type,
                                             tasks[id].trigger_config, enabled, now) :
               IF panics
               THEN CommandPanics("enable_task", id) /\ UNCHANGED tasks
               ELSE /\ tasks' = [tasks EXCEPT ![id] =
                                   EnabledRow(tasks[id], enabled,
                                              EnableNextRun(tasks[id], enabled, now), now)]
                    /\ cmdRet' = Return("enable_task", id, "Ok", None)
                    /\ UNCHANGED th
       ELSE /\ cmdRet' = Return("enable_task", id, "task not found", None)
            /\ UNCHANGED <<tasks, th>>
    /\ UNCHANGED <<now, fk, runner, execs, taskSeq, execSeq, events>>

\* get_db_task, then execute_task on the row read (ExecInsert and on)
scheduler_execute_now(id) ==
    LET task == get_db_task(tasks, id)
    IN  /\ CmdIdle
        /\ IF IsSome(task)
           THEN /\ th' = [th EXCEPT !["cmd"] = EnterExecute(th["cmd"], Unwrap(task))]
                /\ UNCHANGED cmdRet
           ELSE /\ cmdRet' = Return("execute_now", id, "task not found", None)
                /\ UNCHANGED th
        /\ UNCHANGED <<now, fk, runner, tasks, execs, taskSeq, execSeq, events>>

---------------------------------------------------------------------------
(* The clock *)

Advance ==
    /\ now + ClockStep <= MaxClockSteps * ClockStep
    /\ now' = now + ClockStep
    /\ UNCHANGED <<fk, runner, tasks, execs, taskSeq, execSeq, events, th, cmdRet>>

---------------------------------------------------------------------------
(* The whole system: the loop, started by the application's setup, and     *)
(* the host issuing commands                                               *)

EmptyTable == [i \in {} |-> None]

TaskIds == 1..MaxTasks

InitStore ==
    /\ now = 0
    /\ fk \in BOOLEAN
    /\ tasks = EmptyTable
    /\ execs = EmptyTable
    /\ taskSeq = 0
    /\ execSeq = 0
    /\ events = <<>>
    /\ cmdRet = NoReturn
    /\ runner = StartedRunner

Init ==
    /\ InitStore
    /\ th = [t \in Threads |-> IF t = "loop" THEN Locals("top", 0, <<>>)
                               ELSE Locals("idle", 0, <<>>)]

\* what the host passes in: triggers and actions as <<type, config>>
Triggers == {<<"interval", IntervalCfg(1)>>, <<"manual", ManualCfg>>}
Actions == {<<"notification", NotificationCfg>>, <<"script", ScriptCfg>>}
Patches ==
    {Patch(None, None, Some(tr[1]), Some(tr[2]), None, None, None, None) : tr \in Triggers}
    \cup {Patch(None, None, None, None, None, None, Some(e), None) : e \in BOOLEAN}

Executor == \E self \in Threads : ExecInsert(self) \/ ExecFinalize(self) \/ ExecRunInfo(self)

Loop == LoopWake \/ \E desc_ties \in BOOLEAN : LoopTick(desc_ties)

Commands ==
    \/ \E tr \in Triggers, ac \in Actions, enabled \in BOOLEAN :
          scheduler_create_task("a", None, tr[1], tr[2], ac[1], ac[2], enabled, None)
    \/ \E id \in TaskIds : scheduler_get_task(id)
    \/ \E id \in TaskIds, patch \in Patches : scheduler_update_task(id, patch)
    \/ \E id \in TaskIds : scheduler_delete_task(id)
    \/ \E id \in TaskIds, enabled \in BOOLEAN : scheduler_enable_task(id, enabled)
    \/ \E id \in TaskIds : scheduler_execute_now(id)

Next == Advance \/ Loop \/ Executor \/ Commands

Spec == Init /\ [][Next]_vars

---------------------------------------------------------------------------
(* The command surface alone: createTask, updateTask and setEnabled called *)
(* one after another, with every trigger shape and every partial update    *)

CrudTriggers ==
    {<<"interval", IntervalCfg(1)>>, <<"interval", IntervalCfg(0)>>,
     <<"cron", CronCfg("* * * * *")>>, <<"manual", ManualCfg>>}

PatchFields ==
    {"name", "description", "trigger_type", "trigger_config",
     "action_type", "action_config", "enabled", "metadata"}

\* one value per argument, but for the trigger type, the trigger config and
\* the enabled flag, which next_run depends on
PatchValues ==
    {[name |-> "b", description |-> "d", trigger_type |-> tt, trigger_config |-> tc,
      action_type |-> "script", action_config |-> ScriptCfg,
      enabled |-> e, metadata |-> "{}"] :
        tt \in {"interval", "manual"},
        tc \in {IntervalCfg(1), CronCfg("* * * * *")},
        e \in BOOLEAN}

\* the updates that supply at most two arguments, and the one that supplies all
CrudPatches ==
    {[f \in PatchFields |-> IF f \in S THEN Some(v[f]) ELSE None] :
        S \in {T \in SUBSET PatchFields : Cardinality(T) <= 2} \cup {PatchFields},
        v \in PatchValues}

NextCrud ==
    \/ Advance
    \/ \E tr \in CrudTriggers, enabled \in BOOLEAN :
          scheduler_create_task("a", None, tr[1], tr[2], "notification", NotificationCfg,
                                enabled, None)
    \/ \E id \in TaskIds, patch \in CrudPatches : scheduler_update_task(id, patch)
    \/ \E id \in TaskIds, enabled \in BOOLEAN : scheduler_enable_task(id, enabled)

SpecCrud == Init /\ [][NextCrud]_vars

\* C1: after any sequence of createTask, updateTask and setEnabled calls, every
\* stored task with enabled = false has next_run = null.
C1_DisabledHasNoNextRun ==
    \A i \in DOMAIN tasks : ~tasks[i].enabled => tasks[i].next_run = None

\* a disabled interval task that an update or a setEnabled has written
C1_Witness ==
    \E i \in DOMAIN tasks :
        /\ ~tasks[i].enabled
        /\ tasks[i].trigger_type = "interval"
        /\ tasks[i].trigger_config = IntervalCfg(1)
        /\ IsSome(tasks[i].updated_at)
        /\ cmdRet.op = "enable_task"

---------------------------------------------------------------------------
(* Claims about the whole system (Spec) *)

\* the trigger of row can produce a future time: an interval with positive
\* seconds, or a cron expression with a next occurrence
CanSchedule(row) ==
    \/ /\ row.trigger_type = "interval"
       /\ IsSome(row.trigger_config.type)
       /\ IsSome(row.trigger_config.seconds)
       /\ Unwrap(row.trigger_config.seconds) > 0
    \/ /\ row.trigger_type = "cron"
       /\ IsSome(row.trigger_config.type)
       /\ IsSome(row.trigger_config.expression)
       /\ IsSome(CronParse("0 " \o Unwrap(row.trigger_config.expression)))

\* C2: in every reachable state, ticks and executeNow included, next_run is
\* non-null only if the task is enabled and its trigger can produce a future
\* time.  (The statement of the claim; the executor breaks it.)
C2_NextRunOnlyIfEnabledAndSchedulable ==
    \A i \in DOMAIN tasks :
        IsSome(tasks[i].next_run) => tasks[i].enabled /\ CanSchedule(tasks[i])

\* C3: a task whose current trigger type is manual or event never has a
\* non-null next_run and is never returned by the due-task poll.  (The
\* statement of the claim; a tick racing an updateTask breaks it.)
C3_ManualAndEventNeverScheduled ==
    \A i \in DOMAIN tasks :
        tasks[i].trigger_type \in {"manual", "event"} =>
            /\ tasks[i].next_run = None
            /\ \A desc_ties \in BOOLEAN :
                  LET due == list_due_tasks(tasks, now, desc_ties)
                  IN  \A k \in 1..Len(due) : due[k].id # i

---------------------------------------------------------------------------
(* The due-task query on stores of up to MaxStoreRows tasks *)

\* rows in the store the poll runs on
MaxStoreRows == 22

\* A row as the commands leave it.  kind 0: an enabled 1 s interval task
\* created at c; 1: the same created disabled; 2: created disabled and run by
\* executeNow at c; 3: an enabled manual task.
StoreRow(i, kind, c) ==
    LET created == TaskRow(i, "a", None,
                           IF kind = 3 THEN "manual" ELSE "interval",
                           IF kind = 3 THEN ManualCfg ELSE IntervalCfg(1),
                           "notification", NotificationCfg, kind \in {0, 3},
                           IF kind = 0 THEN Some(c + MS_PER_SECOND) ELSE None,
                           None, c)
    IN  IF kind = 2
        THEN [created EXCEPT !.last_run = Some(c), !.updated_at = Some(c),
                             !.next_run = Some(c + MS_PER_SECOND)]
        ELSE created

\* which kind the i-th row has under each mix
KindOf(i, mix) ==
    CASE mix = 0 -> 0
      [] mix = 1 -> IF i % 24 = 1 THEN 2 ELSE 0
      [] OTHER -> i % 4

InitDue ==
    /\ now = 0
    /\ fk \in BOOLEAN
    /\ execs = EmptyTable
    /\ execSeq = 0
    /\ events = <<>>
    /\ cmdRet = NoReturn
    /\ runner = StartedRunner
    /\ th = [t \in Threads |-> IF t = "loop" THEN Locals("top", 0, <<>>)
                               ELSE Locals("idle", 0, <<>>)]
    /\ \E n \in 0..MaxStoreRows, stride \in {1, 3, 4}, mix \in {0, 1, 2} :
          /\ taskSeq = n
          /\ tasks = [i \in 1..n |->
                        StoreRow(i, KindOf(i, mix),
                                 ((i * stride) % 4) * ClockStep - MS_PER_SECOND)]

NextDue == Advance \/ Loop

SpecDue == InitDue /\ [][NextDue]_vars

DueIds == {i \in DOMAIN tasks :
             tasks[i].enabled /\ IsSome(tasks[i].next_run)
             /\ Unwrap(tasks[i].next_run) <= now}

\* C4: listDueTasks(nowMs) returns at most 20 tasks, each enabled with a
\* non-null next_run <= nowMs, in ascending next_run order, and they are the
\* earliest-due ones: no omitted due task has a smaller next_run than a
\* returned one (and none is omitted while fewer than 20 are returned).
C4_DuePollIsEarliestTwenty ==
    \A desc_ties \in BOOLEAN :
        LET due == list_due_tasks(tasks, now, desc_ties)
            returned == {due[k].id : k \in 1..Len(due)}
        IN  /\ Len(due) <= 20
            /\ Cardinality(returned) = Len(due)
            /\ Len(due) = IF Cardinality(DueIds) < 20 THEN Cardinality(DueIds) ELSE 20
            /\ \A k \in 1..Len(due) :
                  /\ due[k].id \in DueIds
                  /\ due[k] = tasks[due[k].id]
            /\ \A k \in 1..(Len(due) - 1) :
                  Unwrap(due[k].next_run) <= Unwrap(due[k + 1].next_run)
            /\ \A j \in DueIds \ returned : \A k \in 1..Len(due) :
                  Unwrap(tasks[j].next_run) >= Unwrap(due[k].next_run)

\* the loop has polled a store with more than 20 due tasks, of which some are
\* disabled or unscheduled, and holds 20 rows
C4_Witness ==
    /\ Cardinality(DueIds) > 20
    /\ th["loop"].pc = "insert"
    /\ Len(th["loop"].due) = 19
    /\ \E i \in DOMAIN tasks : ~tasks[i].enabled /\ IsSome(tasks[i].next_run)
    /\ \E i, j \in DueIds : tasks[i].next_run # tasks[j].next_run

---------------------------------------------------------------------------
(* The life of an execution row *)

Terminal(status) == status \in {"success", "failed"}

\* thread self returns from execute_task with Ok in this step
ReturnsOk(self) == th[self].pc = "run_info" /\ th'[self] # th[self]

\* thread self runs the finalizing UPDATE of its attempt in this step
Finalizes(self) == th[self].pc = "finalize" /\ th'[self].pc = "run_info"

\* C5, as stated: each execution attempt that returns has created one
\* TaskExecution row, written first with status running, and then moves it
\* to success or failed.  (A deleteTask between the attempt's insert and its
\* finalizing UPDATE breaks it: the UPDATE finds no row.)
C5_EveryAttemptFinalizesItsRow ==
    [][\A self \in Threads :
          Finalizes(self) =>
              /\ Unwrap(th[self].exec_id) \in DOMAIN execs
              /\ execs[Unwrap(th[self].exec_id)].status = "running"
              /\ Terminal(execs'[Unwrap(th[self].exec_id)].status)]_vars

\* C5, amended: a row is created only by an attempt's insert, one per
\* attempt, with status running; its status changes only once, from running
\* to success or failed, in its own attempt's finalizing UPDATE; a terminal
\* row never changes; the finalizing UPDATE moves the row unless the task was
\* deleted meanwhile and took the row with it; and when the attempt returns
\* Ok its row, if still stored, is terminal.
C5_ExecutionRowLifecycle ==
    [][/\ \A e \in DOMAIN execs' \ DOMAIN execs :
             /\ execs'[e].status = "running"
             /\ DOMAIN execs' \ DOMAIN execs = {e}
             /\ \E self \in Threads :
                   /\ th[self].pc = "insert"
                   /\ th'[self].pc = "finalize"
                   /\ th'[self].exec_id = Some(e)
       /\ \A e \in DOMAIN execs \cap DOMAIN execs' :
             /\ Terminal(execs[e].status) => execs'[e] = execs[e]
             /\ execs'[e].status # execs[e].status =>
                   /\ Terminal(execs'[e].status)
                   /\ \E self \in Threads :
                         /\ th[self].pc = "finalize"
                         /\ th[self].exec_id = Some(e)
                         /\ th'[self].pc = "run_info"
       /\ \A self \in Threads :
             /\ th[self].pc \in {"finalize", "run_info"} => IsSome(th[self].exec_id)
             /\ Finalizes(self) =>
                   LET e == Unwrap(th[self].exec_id)
                   IN  IF e \in DOMAIN execs
                       THEN execs[e].status = "running" /\ Terminal(execs'[e].status)
                       ELSE fk /\ Unwrap(th[self].task).id \notin DOMAIN tasks
             /\ ReturnsOk(self) =>
                   LET e == Unwrap(th[self].exec_id)
                   IN  IF e \in DOMAIN execs'
                       THEN Terminal(execs'[e].status)
                       ELSE fk /\ Unwrap(th[self].task).id \notin DOMAIN tasks']_vars

\* the loop's attempt has returned Ok and left a terminal row
C5_Witness ==
    /\ th["loop"].pc = "sleep"
    /\ th["loop"].ret = Some("Ok")
    /\ \E e \in DOMAIN execs : Terminal(execs[e].status) /\ execs[e].started_at > 0

---------------------------------------------------------------------------
(* Commands on a task that is not there *)

IsNotFound(res) ==
    res \in {"task not found", "task not found: Query returned no rows"}

\* C6: getTask, updateTask, setEnabled and executeNow called with an id that
\* is not in the store return a NotFound error and leave every task row and
\* every execution row unchanged; executeNow inserts no execution row, emits
\* no event and does not enter the executor.
C6_NotFoundChangesNothing ==
    [][(/\ th["cmd"].pc = "idle"
        /\ cmdRet' # cmdRet
        /\ cmdRet'.op \in {"get_task", "update_task", "enable_task", "execute_now"}
        /\ cmdRet'.id \notin DOMAIN tasks)
       => /\ IsNotFound(cmdRet'.res)
          /\ cmdRet'.task = None
          /\ tasks' = tasks
          /\ execs' = execs
          /\ execSeq' = execSeq
          /\ events' = events
          /\ th' = th]_vars

\* executeNow on a deleted task's id has returned NotFound while execution
\* rows exist
C6_Witness ==
    /\ cmdRet.op = "execute_now"
    /\ cmdRet.res = "task not found"
    /\ cmdRet.id \notin DOMAIN tasks
    /\ taskSeq >= cmdRet.id
    /\ execs # EmptyTable

\* C9: each setEnabled(id, true) on an existing task leaves next_run =
\* computeNextRun(trigger, time of that call), whatever next_run was before,
\* so a second call in a row at the same time leaves the next_run of the
\* first; each setEnabled(id, false) leaves next_run null.  The call changes
\* enabled, next_run and updated_at only.
C9_SetEnabledRecomputesFromNow ==
    [][\A id \in TaskIds, enabled \in BOOLEAN :
          (id \in DOMAIN tasks /\ scheduler_enable_task(id, enabled))
          => LET old == tasks[id]
                 new == tasks'[id]
             IN  /\ cmdRet'.res = "Ok"
                 /\ new.enabled = enabled
                 /\ new.next_run = IF enabled
                                   THEN compute_next_run(old.trigger_type,
                                                         old.trigger_config, now)
                                   ELSE None
                 /\ new = [old EXCEPT !.enabled = new.enabled,
                                      !.next_run = new.next_run,
                                      !.updated_at = Some(now)]
                 /\ (/\ enabled
                     /\ cmdRet.op = "enable_task" /\ cmdRet.id = id /\ cmdRet.res = "Ok"
                     /\ old.enabled /\ old.updated_at = Some(now))
                    => new.next_run = old.next_run]_vars

\* setEnabled(id, true) has run after the task was already scheduled, at a
\* later time, and next_run counts from the time of this call
C9_Witness ==
    /\ cmdRet.op = "enable_task"
    /\ cmdRet.res = "Ok"
    /\ cmdRet.id \in DOMAIN tasks
    /\ LET row == tasks[cmdRet.id]
       IN  /\ row.enabled
           /\ row.trigger_type = "interval"
           /\ row.updated_at = Some(now)
           /\ now > row.created_at
           /\ row.next_run = Some(now + MS_PER_SECOND)

\* the updates that supply no argument, one argument, two of the three that
\* next_run depends on, or all of them
UpdatePatches ==
    {[f \in PatchFields |-> IF f \in S THEN Some(v[f]) ELSE None] :
        S \in {T \in SUBSET PatchFields : Cardinality(T) <= 1}
               \cup {T \in SUBSET {"trigger_type", "trigger_config", "enabled"} :
                        Cardinality(T) = 2}
               \cup {PatchFields},
        v \in PatchValues}

NextUpdate ==
    \/ Advance
    \/ \E tr \in {<<"interval", IntervalCfg(1)>>, <<"manual", ManualCfg>>},
          enabled \in BOOLEAN :
          scheduler_create_task("a", None, tr[1], tr[2], "notification", NotificationCfg,
                                enabled, None)
    \/ \E id \in TaskIds, patch \in UpdatePatches : scheduler_update_task(id, patch)

SpecUpdate == Init /\ [][NextUpdate]_vars

\* C10: updateTask on an existing task sets each of name, description,
\* trigger type and config, action type and config, enabled and metadata to
\* the supplied value if one is supplied and leaves it at its prior value
\* otherwise; id, created_at and last_run stay; next_run becomes
\* computeNextRun(resulting trigger type, resulting trigger config, update
\* time) if the resulting enabled flag is true and null otherwise.
C10_UpdateChangesExactlySuppliedFields ==
    [][\A id \in TaskIds, patch \in UpdatePatches :
          (/\ id \in DOMAIN tasks
           /\ cmdRet'.op = "update_task"
           /\ scheduler_update_task(id, patch))
          => LET old == tasks[id]
                 new == tasks'[id]
                 Kept(f) == new[f] = IF IsSome(patch[f]) THEN Unwrap(patch[f]) ELSE old[f]
                 KeptOpt(f) == new[f] = IF IsSome(patch[f]) THEN patch[f] ELSE old[f]
             IN  /\ cmdRet'.res = "Ok"
                 /\ Kept("name")
                 /\ KeptOpt("description")
                 /\ Kept("trigger_type")
                 /\ Kept("trigger_config")
                 /\ Kept("action_type")
                 /\ Kept("action_config")
                 /\ Kept("enabled")
                 /\ KeptOpt("metadata")
                 /\ new.id = old.id
                 /\ new.created_at = old.created_at
                 /\ new.last_run = old.last_run
                 /\ new.next_run = IF new.enabled
                                   THEN compute_next_run(new.trigger_type,
                                                         new.trigger_config, now)
                                   ELSE None
                 /\ DOMAIN tasks' = DOMAIN tasks]_vars

\* an update that supplied a name and nothing else has rescheduled an
\* enabled interval task from the update time
C10_Witness ==
    /\ cmdRet.op = "update_task"
    /\ cmdRet.res = "Ok"
    /\ cmdRet.id \in DOMAIN tasks
    /\ LET row == tasks[cmdRet.id]
       IN  /\ row.name = "b"
           /\ row.description = None
           /\ row.action_type = "notification"
           /\ row.enabled
           /\ row.trigger_type = "interval"
           /\ row.updated_at = Some(now)
           /\ now > row.created_at
           /\ row.next_run = Some(now + MS_PER_SECOND)

---------------------------------------------------------------------------
(* The executor on every action type and config shape: tasks are created   *)
(* and then run by the loop's ticks and by executeNow                      *)

ExecActions ==
    {<<t, c>> : t \in {"notification", "agent_task", "workflow", "script", "webhook"},
                c \in {NotificationButtonCfg, AgentTaskCfg, WorkflowCfg,
                       NoBodyCfg, EmptyActionCfg}}

NextExec ==
    \/ Advance
    \/ Loop
    \/ Executor
    \/ \E ac \in ExecActions, enabled \in BOOLEAN :
          scheduler_create_task("a", None, "interval", IntervalCfg(1), ac[1], ac[2],
                                enabled, None)
    \/ \E id \in TaskIds : scheduler_execute_now(id)

SpecExec == Init /\ [][NextExec]_vars

\* the execution row self's finalizing UPDATE writes in this step
FinalizedBy(self) == execs'[Unwrap(th[self].exec_id)]

\* C7, as stated: executing a script task ends in status failed with error
\* "unsupported action type" and a null result.  (The text the code records
\* is another.)
C7_ScriptFailsAsUnsupportedActionType ==
    [][\A self \in Threads :
          (/\ Finalizes(self)
           /\ Unwrap(th[self].exec_id) \in DOMAIN execs
           /\ Unwrap(th[self].task).action_type = "script")
          => /\ FinalizedBy(self).status = "failed"
             /\ FinalizedBy(self).error = Some("unsupported action type")
             /\ FinalizedBy(self).result = None]_vars

\* C7, amended: executing a script task ends in status failed with error
\* "script action is not supported yet"; executing a task whose action type
\* is none of notification, agent_task, workflow, script ends in status
\* failed with error "unknown action type: <tag>"; result is null in both.
C7_ScriptAndUnknownActionsFail ==
    [][\A self \in Threads :
          (Finalizes(self) /\ Unwrap(th[self].exec_id) \in DOMAIN execs)
          => LET type == Unwrap(th[self].task).action_type
                 row == FinalizedBy(self)
             IN  /\ type = "script" =>
                       /\ row.status = "failed"
                       /\ row.error = Some("script action is not supported yet")
                       /\ row.result = None
                 /\ type \notin {"notification", "agent_task", "workflow", "script"} =>
                       /\ row.status = "failed"
                       /\ row.error = Some("unknown action type: " \o type)
                       /\ row.result = None]_vars

\* executeNow has run a script task to its failed row
C7_Witness ==
    /\ cmdRet.op = "execute_now"
    /\ cmdRet.res = "Ok"
    /\ \E e \in DOMAIN execs :
          /\ execs[e].task_id \in DOMAIN tasks
          /\ tasks[execs[e].task_id].action_type = "script"
          /\ execs[e].status = "failed"
          /\ execs[e].error = Some("script action is not supported yet")

\* whether the config has the keys the action type's shape requires
HasShape(type, cfg) ==
    CASE type = "notification" -> IsSome(cfg.type) /\ IsSome(cfg.title) /\ IsSome(cfg.body)
      [] type = "agent_task" -> IsSome(cfg.type) /\ IsSome(cfg.prompt)
      [] type = "workflow" -> IsSome(cfg.type) /\ IsSome(cfg.workflowId)

\* the payload of a config that has its type's shape
PayloadOf(type, cfg) ==
    CASE type = "notification" ->
            [title |-> Unwrap(cfg.title), body |-> Unwrap(cfg.body),
             actionButton |-> cfg.actionButton, actionCallback |-> cfg.actionCallback]
      [] type = "agent_task" ->
            [prompt |-> Unwrap(cfg.prompt), toolsAllowed |-> cfg.toolsAllowed,
             maxSteps |-> cfg.maxSteps]
      [] type = "workflow" ->
            [workflowId |-> Unwrap(cfg.workflowId), input |-> cfg.input]

\* C8: for a notification, agent_task or workflow task the execution ends with
\* status success, result = the decoded payload and a null error exactly when
\* the action config decodes to the type's shape; otherwise it ends with
\* status failed, a non-null error and a null result, and execute_task still
\* returns Ok to its caller: the error is recorded, not returned.
C8_DecodeDecidesOutcome ==
    [][\A self \in Threads :
          LET task == Unwrap(th[self].task)
              decoding == task.action_type \in {"notification", "agent_task", "workflow"}
          IN  /\ (Finalizes(self) /\ Unwrap(th[self].exec_id) \in DOMAIN execs /\ decoding)
                 => IF HasShape(task.action_type, task.action_config)
                    THEN /\ FinalizedBy(self).status = "success"
                         /\ FinalizedBy(self).result =
                               Some(PayloadOf(task.action_type, task.action_config))
                         /\ FinalizedBy(self).error = None
                    ELSE /\ FinalizedBy(self).status = "failed"
                         /\ IsSome(FinalizedBy(self).error)
                         /\ FinalizedBy(self).result = None
              /\ (th[self].pc = "finalize" /\ th'[self] # th[self]) => Finalizes(self)
              /\ (ReturnsOk(self) /\ decoding)
                 => /\ th'[self].ret = Some("Ok")
                    /\ self = "cmd" => cmdRet'.res = "Ok"]_vars

\* executeNow has returned Ok for a notification task whose config lacks its
\* body, and the failure is in the execution row
C8_Witness ==
    /\ cmdRet.op = "execute_now"
    /\ cmdRet.res = "Ok"
    /\ \E e \in DOMAIN execs :
          /\ execs[e].task_id \in DOMAIN tasks
          /\ tasks[execs[e].task_id].action_type = "notification"
          /\ tasks[execs[e].task_id].action_config = NoBodyCfg
          /\ execs[e].status = "failed"
          /\ IsSome(execs[e].error)
          /\ execs[e].result = None

---------------------------------------------------------------------------
(* createTask on every kind of trigger, at every time of the clock *)

\* seconds whose product with 1000 still fits in the model's i64 but whose
\* sum with a late clock reading does not, and seconds whose product does not
OverflowingSum == MaxI64 \div MS_PER_SECOND
OverflowingProduct == MaxI64 \div MS_PER_SECOND + 1

CreateTriggers ==
    {<<"interval", IntervalCfg(s)>> : s \in {-1, 0, 1, 60, OverflowingSum, OverflowingProduct}}
    \cup {<<"interval", EmptyTriggerCfg>>, <<"cron", CronCfg("* * * * *")>>,
          <<"cron", CronCfg("often")>>, <<"manual", ManualCfg>>, <<"event", ManualCfg>>,
          <<"weekly", IntervalCfg(1)>>}

NextCreate ==
    \/ Advance
    \/ \E tr \in CreateTriggers, enabled \in BOOLEAN :
          scheduler_create_task("a", None, tr[1], tr[2], "notification", NotificationCfg,
                                enabled, None)
    \/ \E id \in TaskIds : scheduler_get_task(id)
    \/ \E id \in TaskIds : scheduler_delete_task(id)

SpecCreate == Init /\ [][NextCreate]_vars

\* C11: createTask at time t stores a task with last_run = null and next_run
\* = computeNextRun(trigger, t) if enabled, null otherwise; for an enabled
\* interval trigger with seconds = s > 0 next_run = t + 1000*s, and for
\* seconds <= 0 next_run is null even when enabled.
C11_CreateStoresInitialNextRun ==
    [][\A tr \in CreateTriggers, enabled \in BOOLEAN :
          scheduler_create_task("a", None, tr[1], tr[2], "notification", NotificationCfg,
                                enabled, None)
          => /\ taskSeq' \in DOMAIN tasks'
             /\ LET row == tasks'[taskSeq']
                    seconds == tr[2].seconds
                IN  /\ row.last_run = None
                    /\ row.enabled = enabled
                    /\ row.created_at = now
                    /\ row.next_run =
                          IF ~enabled THEN None
                          ELSE IF tr[1] = "interval" /\ IsSome(seconds)
                          THEN IF Unwrap(seconds) > 0
                               THEN Some(now + 1000 * Unwrap(seconds))
                               ELSE None
                          ELSE compute_next_run(tr[1], tr[2], now)]_vars

---------------------------------------------------------------------------
(* The runner from construction on: start and stop called from two         *)
(* threads, over a store with two tasks that are due                       *)

\* an enabled every-minute cron task created one second before the epoch:
\* due from time 0 on, and once run not due again within the clock's range
RunnerRow(i) ==
    TaskRow(i, "a", None, "cron", CronCfg("* * * * *"), "notification", NotificationCfg,
            TRUE, cron_next_ms("* * * * *", -MS_PER_SECOND), None, -MS_PER_SECOND)

InitRunner ==
    /\ now = 0
    /\ fk \in BOOLEAN
    /\ execs = EmptyTable
    /\ execSeq = 0
    /\ events = <<>>
    /\ cmdRet = NoReturn
    /\ runner = NewRunner
    /\ th = [t \in Threads |-> IF t = "loop" THEN Locals("none", 0, <<>>)
                               ELSE Locals("idle", 0, <<>>)]
    /\ taskSeq = 2
    /\ tasks = [i \in 1..2 |-> RunnerRow(i)]

LoopSteps ==
    \/ LoopBegin
    \/ LoopExit
    \/ Loop
    \/ LoopWakeLate
    \/ ExecInsert("loop") \/ ExecFinalize("loop") \/ ExecRunInfo("loop")

NextRunner == Advance \/ Start \/ Stop \/ LoopSteps

SpecRunner == InitRunner /\ [][NextRunner]_vars

\* the worker gets to run and time passes
FairSpecRunner == SpecRunner /\ WF_vars(LoopSteps) /\ WF_vars(Advance)

\* C12: whatever start calls are made on one runner, from one thread or from
\* two at once, at most one worker loop is ever spawned, and a start on a
\* runner that is already started changes nothing (but the count of calls).
C12_StartIsIdempotent ==
    [][/\ runner'.spawned <= 1
       /\ \A c \in Callers :
             (StartSwap(c) /\ runner.is_started)
             => /\ runner' = [runner EXCEPT !.calls = runner'.calls]
                /\ UNCHANGED <<now, fk, tasks, execs, taskSeq, execSeq, events, th,
                               cmdRet>>]_vars

\* a second start has returned while the first is still before its spawn,
\* and later: both have returned and one worker runs
C12_Witness ==
    /\ runner.calls >= 2
    /\ ~runner.stop
    /\ runner.spawned = 1
    /\ \A c \in Callers : runner.pc[c] = "idle"
    /\ th["loop"].pc = "finalize"

InExecute(pc) == pc \in {"insert", "finalize", "run_info"}

\* C13: the worker ends only at the head of its loop, on seeing the stop
\* flag, and with the flag set it starts no tick there; a stop call changes
\* nothing of the worker once the worker runs, so a tick in flight goes on
\* through its writes; and once stop is signalled a spawned worker
\* eventually ends.
C13_StopIsCooperative ==
    /\ [][/\ (th'["loop"].pc = "stopped" /\ th["loop"].pc # "stopped")
             => (th["loop"].pc = "top" /\ runner.stop)
          /\ (th["loop"].pc = "top" /\ runner.stop /\ th'["loop"] # th["loop"])
             => th'["loop"].pc = "stopped"
          /\ (/\ \/ runner'.stop # runner.stop
                 \/ \E c \in Callers : runner.pc[c] = "take" /\ runner'.pc[c] = "idle"
              /\ th["loop"].pc # "queued")
             => th'["loop"] = th["loop"]
          /\ (InExecute(th["loop"].pc) /\ th'["loop"] # th["loop"])
             => \/ ExecInsert("loop") \/ ExecFinalize("loop") \/ ExecRunInfo("loop")]_vars
    /\ [](InExecute(th["loop"].pc) /\ runner.stop
          => ENABLED (ExecInsert("loop") \/ ExecFinalize("loop") \/ ExecRunInfo("loop")))
    /\ ((runner.stop /\ th["loop"].pc # "none")
          ~> th["loop"].pc \in {"stopped", "cancelled"})

\* a stop call has set the flag and is about to take the handle while the
\* tick is between the writes of its first task, the second still to run
C13_Witness ==
    /\ \E c \in Callers : runner.pc[c] = "take"
    /\ runner.stop
    /\ th["loop"].pc = "finalize"
    /\ Len(th["loop"].due) = 1

---------------------------------------------------------------------------
(* The started loop over a store that can fail under the tick *)

InitTick ==
    /\ now = 0
    /\ fk \in BOOLEAN
    /\ execs = EmptyTable
    /\ execSeq = 0
    /\ events = <<>>
    /\ cmdRet = NoReturn
    /\ runner = StartedRunner
    /\ th = [t \in Threads |-> IF t = "loop" THEN Locals("top", 0, <<>>)
                               ELSE Locals("idle", 0, <<>>)]
    /\ taskSeq = 2
    /\ tasks = [i \in 1..2 |-> RunnerRow(i)]

TickSteps ==
    \/ LoopExit
    \/ Loop
    \/ LoopWakeLate
    \/ \E err \in TickErrors : LoopTickFails(err)
    \/ ExecInsert("loop") \/ ExecFinalize("loop") \/ ExecRunInfo("loop")

NextTick == Advance \/ Stop \/ TickSteps

SpecTick == InitTick /\ [][NextTick]_vars

\* the worker gets to run and time passes
FairSpecTick == SpecTick /\ WF_vars(TickSteps) /\ WF_vars(Advance)

IsTickError(l) == l.ret # None /\ Unwrap(l.ret) \in TickErrors

\* C14: a tick that returns a store error leaves the loop asleep for the
\* next cycle with the store as it was; the loop ends only on the stop flag;
\* and so, unless stop is requested, the loop is at its head again and again,
\* where without the stop flag its one step is to start a tick.
C14_TickErrorsNeverEndTheLoop ==
    /\ [][/\ (th["loop"].pc = "top" /\ th'["loop"] # th["loop"] /\ IsTickError(th'["loop"]))
             => /\ th'["loop"].pc = "sleep"
                /\ th'["loop"].wake = now + SCHEDULER_TICK_MS
                /\ UNCHANGED <<tasks, execs, events, runner>>
          /\ (th'["loop"].pc \notin {"top", "sleep", "insert", "finalize", "run_info"})
             => (th'["loop"].pc = "stopped" /\ runner.stop)
          /\ (th["loop"].pc = "top" /\ ~runner.stop /\ th'["loop"] # th["loop"])
             => th'["loop"].pc \in {"sleep", "insert"}]_vars
    /\ []<>(th["loop"].pc = "top" \/ runner.stop)
    /\ (IsTickError(th["loop"]) /\ th["loop"].pc = "sleep")
          ~> (th["loop"].pc = "top" \/ runner.stop)

\* a tick has failed, the loop has slept its second and is at its head
\* again, the due tasks still waiting
C14_Witness ==
    /\ th["loop"].pc = "top"
    /\ IsTickError(th["loop"])
    /\ th["loop"].wake = SCHEDULER_TICK_MS
    /\ now >= SCHEDULER_TICK_MS
    /\ execs = EmptyTable
    /\ ~runner.stop

---------------------------------------------------------------------------
(* The started loop over a store that can fail under the executor *)

NextFaults ==
    \/ Advance
    \/ Loop
    \/ \E err \in TickErrors : LoopTickFails(err)
    \/ Executor
    \/ ExecutorFails
    \/ \E id \in 1..2 : scheduler_execute_now(id)
    \/ \E id \in 1..2 : scheduler_delete_task(id)

SpecFaults == InitTick /\ [][NextFaults]_vars

\* C19: when execute_task returns an error to the tick (its insert or one of
\* its updates failed) and the tick's due list has a task left, the tick
\* hands that task to the executor next, and the rest of the list stays.
C19_ExecutorFailureDoesNotAbortTick ==
    [][(/\ InExecute(th["loop"].pc)
        /\ th'["loop"].ret # None
        /\ Unwrap(th'["loop"].ret) \in {"failed to insert execution",
                                        "failed to update execution",
                                        "failed to update task run info"}
        /\ th["loop"].due # <<>>)
       => /\ th'["loop"].pc = "insert"
          /\ th'["loop"].task = Some(Head(th["loop"].due))
          /\ th'["loop"].due = Tail(th["loop"].due)]_vars

\* the first due task's execution failed at its finalizing update, and the
\* second task of the same tick has been executed to the end
C19_Witness ==
    /\ th["loop"].pc = "sleep"
    /\ th["loop"].ret = Some("Ok")
    /\ execSeq = 2
    /\ 1 \in DOMAIN execs /\ execs[1].status = "running" /\ execs[1].task_id = 1
    /\ 2 \in DOMAIN execs /\ execs[2].status = "success" /\ execs[2].task_id = 2
    /\ execs[2].started_at = execs[1].started_at
    /\ 1 \in DOMAIN tasks /\ tasks[1].last_run = None
    /\ 2 \in DOMAIN tasks /\ tasks[2].last_run # None

---------------------------------------------------------------------------
(* Referential integrity of task_executions *)

\* C15: in every reachable state every execution row's task_id is the id of
\* a stored task (so after deleteTask(id) no execution of id is left), also
\* when the delete comes between the statements of an execution of the task.
C15_ExecutionsReferToStoredTasks ==
    \A e \in DOMAIN execs : execs[e].task_id \in DOMAIN tasks

---------------------------------------------------------------------------
(* Execution history: tasks that fail and tasks that succeed, run by the   *)
(* loop and by executeNow, listed and deleted meanwhile                    *)

ExecutionLimits == {None, Some(0), Some(1)}

NextHistory ==
    \/ Advance
    \/ Loop
    \/ Executor
    \/ \E ac \in {<<"script", ScriptCfg>>, <<"notification", NotificationCfg>>} :
          scheduler_create_task("a", None, "interval", IntervalCfg(1), ac[1], ac[2],
                                TRUE, None)
    \/ \E id \in TaskIds : scheduler_execute_now(id)
    \/ \E id \in TaskIds : scheduler_delete_task(id)
    \/ \E id \in TaskIds, limit \in ExecutionLimits, desc_ties \in BOOLEAN :
          scheduler_get_executions(id, limit, desc_ties)

SpecHistory == Init /\ [][NextHistory]_vars

\* a failed row is fully recorded
FailedRowsAreRecorded ==
    \A e \in DOMAIN execs :
        execs[e].status = "failed"
        => /\ IsSome(execs[e].error)
           /\ IsSome(execs[e].completed_at)
           /\ execs[e].duration = Some(Unwrap(execs[e].completed_at) - execs[e].started_at)

\* a terminal row stays as it is unless its task is deleted in this step
TerminalRowsStay ==
    \A e \in DOMAIN execs :
        Terminal(execs[e].status)
        => \/ e \in DOMAIN execs' /\ execs'[e] = execs[e]
           \/ /\ execs[e].task_id \in DOMAIN tasks
              /\ execs[e].task_id \notin DOMAIN tasks'

RangeOf(seq) == {seq[k] : k \in 1..Len(seq)}

\* C16, as stated: every failed row has an error text, completed_at and
\* duration = completed_at - started_at; only deleting its task removes or
\* rewrites a terminal row; and every listExecutions call for its task
\* returns every failed row of that task.
C16_FailedRowsAlwaysListed ==
    /\ []FailedRowsAreRecorded
    /\ [][/\ TerminalRowsStay
          /\ (cmdRet'.op = "get_executions" /\ cmdRet' # cmdRet)
             => \A e \in DOMAIN execs :
                   (execs[e].status = "failed" /\ execs[e].task_id = cmdRet'.id)
                   => execs[e] \in RangeOf(cmdRet'.task)]_vars

\* C16, amended: every failed row has an error text, completed_at and
\* duration = completed_at - started_at; only deleting its task removes or
\* rewrites a terminal row; listExecutions(task, limit) returns the n =
\* clamp(limit or 50, 1, 200) most recently started rows of the task, most
\* recent first, so a failed row is returned whenever fewer than n other
\* rows of its task started at or after it.
C16_FailedRowsRecordedAndListedWithinLimit ==
    /\ []FailedRowsAreRecorded
    /\ [][/\ TerminalRowsStay
          /\ \A id \in TaskIds, limit \in ExecutionLimits, desc_ties \in BOOLEAN :
                scheduler_get_executions(id, limit, desc_ties)
                => LET out == cmdRet'.task
                       mine == {e \in DOMAIN execs : execs[e].task_id = id}
                       n == IF limit = None THEN 50
                            ELSE IF Unwrap(limit) < 1 THEN 1
                            ELSE IF Unwrap(limit) > 200 THEN 200 ELSE Unwrap(limit)
                   IN  /\ RangeOf(out) \subseteq {execs[e] : e \in mine}
                       /\ Len(out) = IF Cardinality(mine) < n THEN Cardinality(mine) ELSE n
                       /\ Cardinality(RangeOf(out)) = Len(out)
                       /\ \A j, k \in 1..Len(out) :
                             j < k => out[j].started_at >= out[k].started_at
                       /\ \A e \in mine :
                             Cardinality({x \in mine \ {e} :
                                            execs[x].started_at >= execs[e].started_at}) < n
                             => execs[e] \in RangeOf(out)]_vars

\* listExecutions with limit 1 has returned the later of two failed rows of
\* the task
C16_Witness ==
    /\ cmdRet.op = "get_executions"
    /\ Len(cmdRet.task) = 1
    /\ cmdRet.task[1].status = "failed"
    /\ cmdRet.task[1] \in {execs[e] : e \in DOMAIN execs}
    /\ \E e \in DOMAIN execs :
          /\ execs[e].status = "failed"
          /\ execs[e].task_id = cmdRet.id
          /\ execs[e].started_at < cmdRet.task[1].started_at

---------------------------------------------------------------------------
(* What an execution leaves in the task row *)

\* self's execute_task writes the task's run info and returns Ok in this step
WritesRunInfo(self) ==
    /\ th[self].pc = "run_info"
    /\ th'[self].ret = Some("Ok")
    /\ th'[self].pc # "run_info"
    /\ Unwrap(th[self].task).id \in DOMAIN tasks

\* C17: when an execution of task T completes at time c, T's row has
\* last_run = c, updated_at = c and next_run = computeNextRun(T's trigger
\* type, T's trigger config, c), whatever the outcome; for a 1-second
\* interval task run by a tick next_run = c + 1000 and a success execution
\* with the notification payload as its result exists.
C17_RunInfoFollowsTaskTrigger ==
    [][\A self \in Threads :
          WritesRunInfo(self)
          => LET c == Unwrap(th[self].end_ms)
                 T == tasks'[Unwrap(th[self].task).id]
             IN  /\ T.last_run = Some(c)
                 /\ T.updated_at = Some(c)
                 /\ T.next_run = compute_next_run(T.trigger_type, T.trigger_config, c)
                 /\ (/\ self = "loop"
                     /\ T.trigger_type = "interval"
                     /\ T.trigger_config = IntervalCfg(1)
                     /\ T.action_type = "notification"
                     /\ T.action_config = NotificationCfg)
                    => /\ T.next_run = Some(c + 1000)
                       /\ Unwrap(th[self].exec_id) \in DOMAIN execs
                          => LET row == execs[Unwrap(th[self].exec_id)]
                             IN  /\ row.status = "success"
                                 /\ row.completed_at = Some(c)
                                 /\ row.result =
                                       Some([title |-> "hello", body |-> "world",
                                             actionButton |-> None,
                                             actionCallback |-> None])]_vars

---------------------------------------------------------------------------
(* Ticks and executeNow over stores of many tasks, executed to the end *)

\* stores of three and four rows: all enabled and due at different times, or
\* enabled, disabled, stale and manual rows mixed
InitOrder ==
    /\ now = 0
    /\ fk \in BOOLEAN
    /\ execs = EmptyTable
    /\ execSeq = 0
    /\ events = <<>>
    /\ cmdRet = NoReturn
    /\ runner = StartedRunner
    /\ th = [t \in Threads |-> IF t = "loop" THEN Locals("top", 0, <<>>)
                               ELSE Locals("idle", 0, <<>>)]
    /\ \E n \in {3, 4}, stride \in {1, 3}, mix \in {0, 2} :
          /\ taskSeq = n
          /\ tasks = [i \in 1..n |->
                        StoreRow(i, KindOf(i, mix),
                                 ((i * stride) % 4) * ClockStep - MS_PER_SECOND)]

NextOrder ==
    \/ Advance
    \/ Loop
    \/ Executor
    \/ scheduler_execute_now(1)

SpecOrder == InitOrder /\ [][NextOrder]_vars

\* self's execute_task runs one of its statements in this step
ExecuteStep(self) == InExecute(th[self].pc) /\ th'[self] # th[self]

\* C18: executing task T adds one execution row and changes only last_run,
\* next_run and updated_at of T's row: each statement of execute_task leaves
\* every other task row, every execution row that existed before the
\* attempt, and T's other columns as they were.  (An attempt on a task that
\* is no longer stored, its insert rejected, adds and changes nothing.)
C18_ExecutionFrame ==
    [][\A self \in Threads :
          ExecuteStep(self)
          => LET T == Unwrap(th[self].task).id
                 pc == th[self].pc
             IN  /\ pc = "insert"
                    => /\ tasks' = tasks
                       /\ IF fk /\ T \notin DOMAIN tasks
                          THEN execs' = execs /\ th'[self].ret # Some("Ok")
                          ELSE \E e \in (1..MaxExecs) \ DOMAIN execs :
                                  /\ DOMAIN execs' = DOMAIN execs \cup {e}
                                  /\ execs'[e].task_id = T
                                  /\ th'[self].exec_id = Some(e)
                       /\ \A e \in DOMAIN execs : execs'[e] = execs[e]
                 /\ pc = "finalize"
                    => /\ tasks' = tasks
                       /\ DOMAIN execs' = DOMAIN execs
                       /\ \A e \in DOMAIN execs :
                             e # Unwrap(th[self].exec_id) => execs'[e] = execs[e]
                 /\ pc = "run_info"
                    => /\ execs' = execs
                       /\ DOMAIN tasks' = DOMAIN tasks
                       /\ \A i \in DOMAIN tasks : i # T => tasks'[i] = tasks[i]
                       /\ T \in DOMAIN tasks
                          => tasks'[T] = [tasks[T] EXCEPT !.last_run = tasks'[T].last_run,
                                                          !.next_run = tasks'[T].next_run,
                                                          !.updated_at = tasks'[T].updated_at]
                 /\ taskSeq' = taskSeq]_vars

\* a tick has executed two tasks of a store of three or more: two execution
\* rows, the second task's row written, a third task untouched
C18_Witness ==
    /\ th["loop"].pc = "sleep"
    /\ th["loop"].ret = Some("Ok")
    /\ Cardinality(DOMAIN tasks) >= 3
    /\ Cardinality(DOMAIN execs) = 2
    /\ \E i, j \in DOMAIN tasks :
          /\ i # j
          /\ tasks[i].last_run # None /\ tasks[j].last_run # None
          /\ \E e1, e2 \in DOMAIN execs :
                e1 # e2 /\ execs[e1].task_id = i /\ execs[e2].task_id = j
    /\ \E k \in DOMAIN tasks : tasks[k].enabled /\ tasks[k].last_run = None

\* the due list a tick has just taken: the task in hand and the rest
TakenList(l) == IF l.pc = "insert" THEN <<Unwrap(l.task)>> \o l.due ELSE <<>>

\* C20: a tick takes its due list in one query at one reading of the clock:
\* rows that are then stored enabled with next_run <= that time, in
\* ascending next_run, no task twice; it hands them to the executor one
\* after another in that order, and the list changes in no other way until
\* the tick ends.
C20_TickRunsItsDueListInOrder ==
    [][/\ (th["loop"].pc = "top" /\ th'["loop"] # th["loop"])
          => LET list == TakenList(th'["loop"])
             IN  /\ \A k \in 1..Len(list) :
                       /\ list[k].id \in DOMAIN tasks
                       /\ list[k] = tasks[list[k].id]
                       /\ list[k].enabled
                       /\ list[k].next_run # None
                       /\ Unwrap(list[k].next_run) <= now
                 /\ \A j, k \in 1..Len(list) :
                       j < k => /\ Unwrap(list[j].next_run) <= Unwrap(list[k].next_run)
                                /\ list[j].id # list[k].id
                 /\ list = <<>> => th'["loop"].pc = "sleep"
       /\ ExecuteStep("loop")
          => \/ /\ th'["loop"].pc \in {"finalize", "run_info"}
                /\ th'["loop"].task = th["loop"].task
                /\ th'["loop"].due = th["loop"].due
             \/ /\ th["loop"].due # <<>>
                /\ th'["loop"].pc = "insert"
                /\ th'["loop"].task = Some(Head(th["loop"].due))
                /\ th'["loop"].due = Tail(th["loop"].due)
             \/ /\ th["loop"].due = <<>>
                /\ th'["loop"].pc = "sleep"
       /\ (th["loop"].pc = "sleep" /\ th'["loop"] # th["loop"])
          => (th'["loop"].pc = "top" /\ th'["loop"].due = <<>>)]_vars

\* the tick is between the writes of the second task of its list, the first
\* executed, a later-due third one waiting
C20_Witness ==
    /\ th["loop"].pc = "finalize"
    /\ Len(th["loop"].due) >= 1
    /\ \E e \in DOMAIN execs :
          /\ Terminal(execs[e].status)
          /\ execs[e].task_id # Unwrap(th["loop"].task).id
          /\ tasks[execs[e].task_id].last_run # None
          /\ Unwrap(th["loop"].task).next_run # None
    /\ Unwrap(Unwrap(th["loop"].task).next_run) < Unwrap(Head(th["loop"].due).next_run)

---------------------------------------------------------------------------
(* The host events of one execution attempt *)

\* the attempt of a thread has its running row inserted and has not returned
AttemptOpen(l) == l.pc \in {"finalize", "run_info"}

IsTerminalEvent(ev) == ev.name \in {"task_completed", "task_failed"}

\* the terminal event that belongs to the outcome an attempt recorded
TerminalEventOf(l) ==
    LET o == Unwrap(l.outcome)
        T == Unwrap(l.task).id
    IN  IF o.status = "success" THEN Event("task_completed", T)
        ELSE Event("task_failed", [id |-> T, error |-> Unwrap(o.error)])

\* C21: the events of every execution attempt are ordered.  The step that
\* inserts the running row emits task_started for the task, then only the
\* action's own event; between that step and the attempt's return no
\* terminal event is emitted; the step in which the attempt returns emits
\* exactly one terminal event, task_completed if the recorded status is
\* success and task_failed {id, error} if it is failed, so every row that
\* reached a terminal status gets its terminal event; and no step outside an
\* attempt emits a started or terminal event.
C21_EventsOfAnAttemptAreOrdered ==
    [][\A self \in Threads :
          LET l == th[self]
              m == th'[self]
          IN  /\ (l.pc = "insert" /\ m.pc = "finalize")
                 => /\ Unwrap(m.exec_id) \in DOMAIN execs' \ DOMAIN execs
                    /\ execs'[Unwrap(m.exec_id)].status = "running"
                    /\ Len(events') > Len(events)
                    /\ SubSeq(events', 1, Len(events) + 1)
                          = Append(events, Event("task_started", Unwrap(l.task).id))
                    /\ \A k \in (Len(events) + 2)..Len(events') :
                          ~IsTerminalEvent(events'[k])
                          /\ events'[k].name # "task_started"
              /\ (AttemptOpen(l) /\ AttemptOpen(m) /\ m # l)
                 => events' = events
              /\ (AttemptOpen(l) /\ ~AttemptOpen(m))
                 => /\ events' = Append(events, TerminalEventOf(l))
                    /\ Unwrap(l.exec_id) \in DOMAIN execs
                          => execs[Unwrap(l.exec_id)].status = Unwrap(l.outcome).status
              /\ (m = l /\ \A other \in Threads : th'[other] = th[other])
                 => events' = events]_vars

---------------------------------------------------------------------------
(* The order of the writes of one execution attempt *)

\* C22: the writes of an attempt come in the order insert (running),
\* finalize (terminal), run info.  A step that sets a task's last_run is the
\* run-info write of an attempt on that task whose execution row, if still
\* stored, is already success or failed with completed_at equal to the
\* last_run written; a running row is only finalized by the attempt that
\* inserted it, before that attempt writes run info; and in every state a
\* task with last_run = c has no execution row completed at c that is still
\* running.
C22_RunInfoComesAfterFinalize ==
    /\ [][/\ \A T \in DOMAIN tasks \cap DOMAIN tasks' :
                tasks'[T].last_run # tasks[T].last_run
                => \E self \in Threads :
                      /\ th[self].pc = "run_info"
                      /\ Unwrap(th[self].task).id = T
                      /\ tasks'[T].last_run = th[self].end_ms
                      /\ Unwrap(th[self].exec_id) \in DOMAIN execs
                            => LET row == execs[Unwrap(th[self].exec_id)]
                               IN  /\ Terminal(row.status)
                                   /\ row.task_id = T
                                   /\ row.completed_at = tasks'[T].last_run
                                   /\ execs'[Unwrap(th[self].exec_id)] = row
          /\ \A e \in DOMAIN execs \cap DOMAIN execs' :
                (execs[e].status = "running" /\ execs'[e].status # "running")
                => \E self \in Threads :
                      /\ th[self].pc = "finalize"
                      /\ th[self].exec_id = Some(e)
                      /\ th'[self].pc = "run_info"
                      /\ UNCHANGED tasks
          /\ \A self \in Threads :
                (th[self].pc = "insert" /\ th'[self].pc # "insert")
                => (UNCHANGED tasks /\ th'[self].pc # "run_info")]_vars
    /\ [](\A T \in DOMAIN tasks : \A e \in DOMAIN execs :
             (execs[e].task_id = T /\ tasks[T].last_run # None
              /\ execs[e].completed_at = tasks[T].last_run)
             => Terminal(execs[e].status))
    /\ [](\A self \in Threads :
             (th[self].pc = "run_info" /\ Unwrap(th[self].exec_id) \in DOMAIN execs)
             => Terminal(execs[Unwrap(th[self].exec_id)].status))

\* one attempt has run through its three writes, its task carrying the
\* completion time of its terminal row, while another attempt's row was left
\* running by a failed finalize and its task was never updated
C22_Witness ==
    /\ \E e \in DOMAIN execs :
          /\ Terminal(execs[e].status)
          /\ execs[e].task_id \in DOMAIN tasks
          /\ tasks[execs[e].task_id].last_run = execs[e].completed_at
    /\ \E e \in DOMAIN execs :
          /\ execs[e].status = "running"
          /\ execs[e].task_id \in DOMAIN tasks
          /\ tasks[execs[e].task_id].last_run = None
          /\ \A self \in Threads : th[self].exec_id # Some(e)

---------------------------------------------------------------------------
(* The process can die between any two statements and be started again     *)

\* a restart that fails the running rows it finds in the store
ProcessRestartFailingStaleRows ==
    /\ \E self \in Threads : InExecute(th[self].pc)
    /\ th' = [t \in Threads |-> IF t = "loop" THEN Locals("top", 0, <<>>)
                                ELSE Locals("idle", 0, <<>>)]
    /\ runner' = StartedRunner
    /\ cmdRet' = NoReturn
    /\ execs' = [e \in DOMAIN execs |->
                   IF execs[e].status = "running"
                   THEN [execs[e] EXCEPT !.status = "failed"]
                   ELSE execs[e]]
    /\ UNCHANGED <<now, fk, tasks, taskSeq, execSeq, events>>

\* the process dies inside an execution and the application is set up
\* again: every thread's locals are lost, setup builds a new runner and
\* starts it, and the tables are as the last completed statement left them
\* (ensure_tables only creates what is missing)
ProcessRestart ==
    /\ \E self \in Threads : InExecute(th[self].pc)
    /\ th' = [t \in Threads |-> IF t = "loop" THEN Locals("top", 0, <<>>)
                                ELSE Locals("idle", 0, <<>>)]
    /\ runner' = StartedRunner
    /\ cmdRet' = NoReturn
    /\ UNCHANGED <<now, fk, tasks, execs, taskSeq, execSeq, events>>

NextCrash ==
    \/ Advance
    \/ Loop
    \/ Executor
    \/ ExecutorFails
    \/ ProcessRestart
    \/ scheduler_execute_now(1)
    \/ scheduler_enable_task(1, FALSE)
    \/ scheduler_delete_task(2)

SpecCrash == InitTick /\ [][NextCrash]_vars

\* an execution row in status running that no attempt in progress holds
Stale(e, store, threads) ==
    /\ e \in DOMAIN store
    /\ store[e].status = "running"
    /\ \A self \in Threads :
          ~(threads[self].pc = "finalize" /\ threads[self].exec_id = Some(e))

\* C23: a crash or a failed write between the executor's writes leaves its
\* traces in the store for good.  A stale running row is never changed by
\* any later step of the loop or of a command: while stored it stays the same
\* running row and stays stale (only deleting its task under an enforced
\* cascade removes it); an attempt that ends before its run-info write
\* leaves its task's last_run and next_run as they were; and a row gets a
\* terminal status only from the attempt that inserted it.
C23_StaleRunningRowsStay ==
    [][/\ \A e \in DOMAIN execs :
             Stale(e, execs, th)
             => /\ e \in DOMAIN execs' => (execs'[e] = execs[e] /\ Stale(e, execs', th'))
                /\ e \notin DOMAIN execs'
                      => (fk /\ execs[e].task_id \in DOMAIN tasks \ DOMAIN tasks')
       /\ \A self \in Threads :
             (th[self].pc \in {"finalize", "run_info"} /\ th'[self] # th[self]
              /\ ~(th[self].pc = "run_info" /\ th'[self].ret = Some("Ok"))
              /\ th'[self].pc # "run_info")
             => /\ UNCHANGED <<tasks, execs>>
                /\ th[self].pc = "finalize" /\ Unwrap(th[self].exec_id) \in DOMAIN execs
                      => Stale(Unwrap(th[self].exec_id), execs', th')]_vars

\* the first attempt on task 1 lost its finalizing write and its row is
\* still running; a later tick, after the task's next_run had stayed where
\* it was, executed the task again to the end, and the old row is as it was
C23_Witness ==
    /\ 1 \in DOMAIN execs /\ 2 \in DOMAIN execs
    /\ Stale(1, execs, th)
    /\ execs[1].task_id = 1 /\ execs[2].task_id = 1
    /\ Terminal(execs[2].status)
    /\ execs[2].started_at > execs[1].started_at
    /\ tasks[1].last_run = execs[2].completed_at
    /\ th["loop"].pc = "sleep"

---------------------------------------------------------------------------
(* compute_next_run on its own, over every kind of trigger and from_ms *)

\* the from_ms values handed to the evaluator: clock readings, and readings
\* next to the ends of i64
EvalFromMs == {0, 1, ClockStep, MS_PER_SECOND, CRON_MINUTE_MS, MaxI64 - MS_PER_SECOND, MaxI64}

\* one call compute_next_run(trigger_type, trigger_config, from_ms): what
\* came back is kept with the arguments (id holds from_ms)
EvaluateNextRun(trigger_type, trigger_config, from_ms) ==
    /\ CmdIdle
    /\ \E panics \in PanicChoices(trigger_type, trigger_config, from_ms) :
          cmdRet' = Return("compute_next_run", from_ms,
                           IF panics THEN "panicked" ELSE "returned",
                           [trigger_type |-> trigger_type,
                            trigger_config |-> trigger_config,
                            next_run |-> IF panics THEN None
                                         ELSE compute_next_run(trigger_type,
                                                               trigger_config, from_ms)])
    /\ UNCHANGED <<now, fk, runner, tasks, execs, taskSeq, execSeq, events, th>>

NextEval ==
    \E tr \in CreateTriggers, from_ms \in EvalFromMs : EvaluateNextRun(tr[1], tr[2], from_ms)

SpecEval == Init /\ [][NextEval]_vars

\* C24: computeNextRun returns for every trigger type, config and fromMs,
\* without raising or aborting: null for manual, event, unrecognized types,
\* malformed config and interval seconds <= 0, and for interval seconds = s > 0
\* exactly fromMs + 1000*s, also when that sum does not fit in i64.
C24_ComputeNextRunIsTotalAndExact ==
    cmdRet.op = "compute_next_run"
    => LET type == cmdRet.task.trigger_type
           cfg == cmdRet.task.trigger_config
           fromMs == cmdRet.id
       IN  /\ cmdRet.res = "returned"
           /\ type \notin {"interval", "cron"} => cmdRet.task.next_run = None
           /\ (type = "interval" /\ (cfg.type = None \/ cfg.seconds = None))
                 => cmdRet.task.next_run = None
           /\ (type = "cron" /\ (cfg.type = None \/ cfg.expression = None))
                 => cmdRet.task.next_run = None
           /\ (type = "interval" /\ cfg.type # None /\ cfg.seconds # None)
                 => IF Unwrap(cfg.seconds) <= 0
                    THEN cmdRet.task.next_run = None
                    ELSE cmdRet.task.next_run
                            = Some(fromMs + MS_PER_SECOND * Unwrap(cfg.seconds))

---------------------------------------------------------------------------
(* The loop alone over a backlog: more tasks due than one tick takes *)

\* execution rows the backlog runs may write: two full ticks and a third begun
MaxBacklogExecs == 42

\* seconds of the interval tasks of a backlog
BacklogSeconds == {1, OverflowingProduct}

\* the row scheduler_create_task(interval {seconds}, enabled = true) stores at
\* time c when it returns
BacklogRow(i, seconds, c) ==
    TaskRow(i, "a", None, "interval", IntervalCfg(seconds), "notification", NotificationCfg,
            TRUE, compute_next_run("interval", IntervalCfg(seconds), c), None, c)

\* task 1 is a 1 s interval task created a second before time 0 and due at
\* 0; the others are either like it, or were just created with an interval
\* whose milliseconds do not fit in i64 by a build whose arithmetic wraps
InitBacklog ==
    /\ now = 0
    /\ fk \in BOOLEAN
    /\ execs = EmptyTable
    /\ execSeq = 0
    /\ events = <<>>
    /\ cmdRet = NoReturn
    /\ runner = StartedRunner
    /\ th = [t \in Threads |-> IF t = "loop" THEN Locals("top", 0, <<>>)
                               ELSE Locals("idle", 0, <<>>)]
    /\ \E n \in {2, DUE_LIMIT + 1, DUE_LIMIT + 2}, seconds \in BacklogSeconds :
          /\ taskSeq = n
          /\ tasks = [i \in 1..n |->
                        IF i = 1 THEN BacklogRow(i, 1, -MS_PER_SECOND)
                        ELSE BacklogRow(i, seconds, IF seconds = 1 THEN -MS_PER_SECOND ELSE 0)]

\* the statements of a tick take no time on the model's clock: time passes
\* while the loop sleeps
BacklogAdvance == th["loop"].pc = "sleep" /\ Advance

NextBacklog ==
    \/ BacklogAdvance
    \/ Loop
    \/ LoopWakeLate
    \/ ExecInsertWithin("loop", MaxBacklogExecs)
    \/ ExecFinalize("loop")
    \/ ExecRunInfo("loop")

SpecBacklog == InitBacklog /\ [][NextBacklog]_vars

\* task T is stored enabled with a next_run and no tick has executed it yet
Waits(T) ==
    /\ T \in DOMAIN tasks
    /\ tasks[T].enabled
    /\ tasks[T].next_run # None
    /\ tasks[T].last_run = None

\* task X has been executed twice at or after time t
ExecutedTwiceSince(X, t) ==
    \E e1, e2 \in DOMAIN execs :
        /\ e1 # e2
        /\ execs[e1].task_id = X /\ execs[e2].task_id = X
        /\ execs[e1].started_at >= t /\ execs[e2].started_at >= t

\* C25: with the loop running and every store operation succeeding, a task
\* that stays enabled with next_run <= now is executed by a tick before the
\* tasks ahead of it come round again, also when more than 20 tasks are due
\* at once: earliest-due-first selection lets no other task be executed a
\* second time, both times at or after the waiting task's next_run, while
\* that task still waits for its first execution, so the tasks that keep
\* becoming due cannot postpone it forever.
C25_DueTaskIsNotPostponedByRecurringTasks ==
    \A T \in DOMAIN tasks :
        Waits(T) => \A X \in DOMAIN tasks \ {T} :
                       ~ExecutedTwiceSince(X, Unwrap(tasks[T].next_run))

---------------------------------------------------------------------------
(* A tick's execution of a task against the commands on the same task *)

\* the readings of the clock up to now
ClockReadings == {k * ClockStep : k \in 0..MaxClockSteps} \cap 0..now

\* enabled, trigger and next_run of a row as some serial order of a tick's
\* execution of the task completing at c and one command on it leaves them.
\* The tick executes only an enabled task and leaves computeNextRun(trigger,
\* c); updateTask and setEnabled at a time t leave computeNextRun of the
\* trigger they leave, from t, if they leave the task enabled, else null;
\* executeNow completing at t leaves computeNextRun(trigger, t).
SeriallyScheduled(row, c) ==
    IF row.enabled
    THEN \E t \in ClockReadings \cup {c} :
            row.next_run = compute_next_run(row.trigger_type, row.trigger_config, t)
    ELSE row.next_run = None

\* C26: however a tick's execution of task T interleaves with updateTask,
\* setEnabled or executeNow on T, T's enabled, trigger and next_run are
\* afterwards what some serial order of the two operations gives: when the
\* tick's executor writes its run info, the row it leaves is enabled with a
\* next_run computed from the trigger the row now has, or disabled with
\* next_run null; it never puts back a next_run computed from a trigger or
\* an enabled flag that a command has replaced meanwhile.
C26_TickAndCommandsSerialize ==
    [][WritesRunInfo("loop")
       => LET T == Unwrap(th["loop"].task).id
          IN  /\ SeriallyScheduled(tasks'[T], Unwrap(th["loop"].end_ms))
              /\ tasks'[T].enabled = tasks[T].enabled
              /\ tasks'[T].trigger_type = tasks[T].trigger_type
              /\ tasks'[T].trigger_config = tasks[T].trigger_config]_vars

====
